---- MODULE Spec2Model ----
(***************************************************************************)
(* Content controls of docx-content-controls: the six control classes      *)
(* (RunContentControl, BlockContentControl, InlineRichTextContentControl,  *)
(* DropdownContentControl, DatePickerContentControl,                       *)
(* CheckboxContentControl), their constructors' validation, the shared id  *)
(* generator and prepForXml.                                               *)
(*                                                                         *)
(* JavaScript values are represented as follows.                           *)
(*   - an optional value is a sequence: <<>> is undefined, <<v>> is v;     *)
(*   - a string the code looks inside (tag, xpath, storeItemId, title,     *)
(*     locale, list item texts) is a sequence of one-character strings;    *)
(*   - a string the code only tests for truthiness or equality is a TLA+   *)
(*     string;                                                             *)
(*   - an element of a children array is a record [kind, ref]: a control   *)
(*     instance (ref is its index in controls), an external component      *)
(*     (TextRun, Paragraph, Table, an empty component) or a raw value      *)
(*     (null, a string).                                                   *)
(***************************************************************************)
EXTENDS Integers, Sequences, FiniteSets, TLC

VARIABLES
    controls,   \* every control instance constructed so far, in order
    idCount,    \* currentCount of the shared generator contentControlIdGen
    last,       \* the last call: a constructor's outcome or a prepForXml result
    firstXml    \* per control: the result of its first prepForXml call, if any

vars == <<controls, idCount, last, firstXml>>

\* Bounds of the model: the number of control instances constructed, where
\* the constructors alone are checked and where prepForXml is called as well.
MaxControls == 3

MaxTree == 2

----------------------------------------------------------------------------
\* Optional values.

Undefined == <<>>

Some(v) == <<v>>

IsDef(o) == o # <<>>

Val(o) == o[1]

----------------------------------------------------------------------------
\* Strings as sequences of characters.

HexDigits ==
    {"0", "1", "2", "3", "4", "5", "6", "7", "8", "9",
     "A", "B", "C", "D", "E", "F", "a", "b", "c", "d", "e", "f"}

WhiteSpace == {" ", "\t", "\n"}

RECURSIVE TrimStart(_)
TrimStart(s) ==
    IF s # <<>> /\ Head(s) \in WhiteSpace THEN TrimStart(Tail(s)) ELSE s

RECURSIVE TrimEnd(_)
TrimEnd(s) ==
    IF s # <<>> /\ s[Len(s)] \in WhiteSpace
    THEN TrimEnd(SubSeq(s, 1, Len(s) - 1))
    ELSE s

\* String.prototype.trim
Trim(s) == TrimEnd(TrimStart(s))

\* String.prototype.includes for a one-character needle
Includes(s, c) == \E i \in 1..Len(s) : s[i] = c

\* String.prototype.startsWith for a one-character prefix
StartsWith(s, c) == s # <<>> /\ s[1] = c

DigitChar(d) ==
    CASE d = 0 -> "0" [] d = 1 -> "1" [] d = 2 -> "2" [] d = 3 -> "3"
      [] d = 4 -> "4" [] d = 5 -> "5" [] d = 6 -> "6" [] d = 7 -> "7"
      [] d = 8 -> "8" [] d = 9 -> "9"

\* Number.prototype.toString of a non-negative integer, in base ten
RECURSIVE NumToString(_)
NumToString(n) ==
    IF n < 10 THEN <<DigitChar(n)>>
    ELSE NumToString(n \div 10) \o <<DigitChar(n % 10)>>

----------------------------------------------------------------------------
\* validation-utils

\* GUID_REGEX: "{", 8 hex, "-", 4 hex, "-", 4 hex, "-", 4 hex, "-", 12 hex, "}",
\* anchored at both ends.
GuidDashes == {10, 15, 20, 25}

GuidLength == 38

\* GuidValidator.isValidGuid, weakened to test the braces only
isValidGuid_bracesOnly(guid) ==
    /\ Len(guid) >= 2
    /\ guid[1] = "{"
    /\ guid[Len(guid)] = "}"

\* GuidValidator.isValidGuid
isValidGuid(guid) ==
    /\ Len(guid) = GuidLength
    /\ guid[1] = "{"
    /\ guid[GuidLength] = "}"
    /\ \A i \in 2..(GuidLength - 1) :
          IF i \in GuidDashes THEN guid[i] = "-" ELSE guid[i] \in HexDigits

\* GuidValidator.validateGuid: the error thrown, "none" when it returns
validateGuid(guid) == IF ~isValidGuid(guid) THEN "guid" ELSE "none"

\* validateDataBinding without the trim of the locator
validateDataBinding_untrimmed(dataBinding) ==
    IF dataBinding.xpath = <<>>
    THEN [err |-> "xpath", warns |-> <<>>]
    ELSE IF validateGuid(dataBinding.storeItemId) # "none"
    THEN [err |-> validateGuid(dataBinding.storeItemId), warns |-> <<>>]
    ELSE IF ~StartsWith(dataBinding.xpath, "/")
    THEN [err |-> "none", warns |-> <<"relativeXpath">>]
    ELSE [err |-> "none", warns |-> <<>>]

\* validateDataBinding throwing where it warns
validateDataBinding_absoluteOnly(dataBinding) ==
    IF dataBinding.xpath = <<>> \/ Len(Trim(dataBinding.xpath)) = 0
    THEN [err |-> "xpath", warns |-> <<>>]
    ELSE IF validateGuid(dataBinding.storeItemId) # "none"
    THEN [err |-> validateGuid(dataBinding.storeItemId), warns |-> <<>>]
    ELSE IF ~StartsWith(dataBinding.xpath, "/")
    THEN [err |-> "xpath", warns |-> <<"relativeXpath">>]
    ELSE [err |-> "none", warns |-> <<>>]

\* validateDataBinding: [err, warns]; err is "none" when it returns normally
validateDataBinding(dataBinding) ==
    IF dataBinding.xpath = <<>> \/ Len(Trim(dataBinding.xpath)) = 0
    THEN [err |-> "xpath", warns |-> <<>>]
    ELSE IF validateGuid(dataBinding.storeItemId) # "none"
    THEN [err |-> validateGuid(dataBinding.storeItemId), warns |-> <<>>]
    ELSE IF ~StartsWith(dataBinding.xpath, "/")
    THEN [err |-> "none", warns |-> <<"relativeXpath">>]
    ELSE [err |-> "none", warns |-> <<>>]

----------------------------------------------------------------------------
\* shared-id-generator

\* uniqueNumericIdCreator(): the returned closure is () => ++currentCount
uniqueNumericIdCreator(currentCount) == currentCount + 1

\* contentControlIdGen, rebuilt at every call instead of shared
contentControlIdGen_fresh(count) ==
    [id |-> uniqueNumericIdCreator(0), count |-> count]

\* contentControlIdGen(): the id returned and the generator's count afterwards
contentControlIdGen(count) ==
    [id |-> uniqueNumericIdCreator(count), count |-> uniqueNumericIdCreator(count)]

----------------------------------------------------------------------------
\* Elements of a children array.

ControlChild(r) == [kind |-> "control", ref |-> r]

TextRun == [kind |-> "TextRun", ref |-> 0]

Paragraph == [kind |-> "Paragraph", ref |-> 0]

Table == [kind |-> "Table", ref |-> 0]

\* a component whose prepForXml returns undefined
EmptyComponent == [kind |-> "empty", ref |-> 0]

NullChild == [kind |-> "null", ref |-> 0]

StringChild == [kind |-> "string", ref |-> 0]

\* !child
IsFalsy(child) == child.kind = "null"

\* typeof child === "object" (true of null)
TypeofObject(child) == child.kind # "string"

\* "prepForXml" in child, for a child that is an object and not null
HasPrepForXml(child) ==
    child.kind \in {"control", "TextRun", "Paragraph", "Table", "empty"}

\* "fileChild" in child: Paragraph, Table and BlockContentControl extend FileChild
HasFileChild(child, heap) ==
    \/ child.kind \in {"Paragraph", "Table"}
    \/ child.kind = "control" /\ heap[child.ref].variant = "BlockContentControl"

\* child?.constructor?.name, "" standing for undefined
ConstructorName(child, heap) ==
    CASE child.kind = "control" -> heap[child.ref].variant
      [] child.kind = "null" -> ""
      [] child.kind = "string" -> "String"
      [] child.kind = "empty" -> "XmlComponent"
      [] OTHER -> child.kind

----------------------------------------------------------------------------
\* Constructor outcomes.

NoError == [err |-> "none", warns |-> <<>>]

\* the constructor threw err; count is the generator's count afterwards
Thrown(err, warns, count) ==
    [err |-> err, warns |-> warns, count |-> count, ctl |-> Undefined]

Constructed(ctl, warns, count) ==
    [err |-> "none", warns |-> warns, count |-> count, ctl |-> Some(ctl)]

\* the tag test without its trim
TagMissing_untrimmed(options) ==
    ~IsDef(options.tag) \/ Val(options.tag) = <<>>

\* !options.tag || options.tag.trim().length === 0
TagMissing(options) ==
    \/ ~IsDef(options.tag)
    \/ Val(options.tag) = <<>>
    \/ Len(Trim(Val(options.tag))) = 0

\* options.tag.includes(" ")
TagWarning(options) ==
    IF Includes(Val(options.tag), " ") THEN <<"tagSpaces">> ELSE <<>>

\* options.title && options.title.length > 255
TitleWarning(options) ==
    IF IsDef(options.title) /\ Len(Val(options.title)) > 255
    THEN <<"titleLong">> ELSE <<>>

\* the children test without the test of the length
ChildrenMissing_undefinedOnly(options) == ~IsDef(options.children)

\* !options.children || options.children.length === 0
ChildrenMissing(options) ==
    ~IsDef(options.children) \/ Len(Val(options.children)) = 0

\* the constructors without their call of validateDataBinding
BindingCheck_skipped(options) == [err |-> "none", warns |-> <<>>]

\* if (options.dataBinding) validateDataBinding(options.dataBinding, ...)
BindingCheck(options) ==
    IF IsDef(options.dataBinding)
    THEN validateDataBinding(Val(options.dataBinding))
    ELSE NoError

----------------------------------------------------------------------------
\* RunContentControl

RunContentControl_validateOptions(options, heap) ==
    IF TagMissing(options) THEN [err |-> "tag", warns |-> <<>>]
    ELSE IF ChildrenMissing(options)
    THEN [err |-> "children", warns |-> TagWarning(options)]
    ELSE IF \E i \in 1..Len(Val(options.children)) :
              LET child == Val(options.children)[i] IN
              IsFalsy(child) \/ ~TypeofObject(child) \/ ~HasPrepForXml(child)
    THEN [err |-> "invalidChildren", warns |-> TagWarning(options)]
    ELSE [err |-> "none", warns |-> TagWarning(options) \o TitleWarning(options)]

NestedControlNames ==
    {"RunContentControl", "InlineRichTextContentControl", "DropdownContentControl",
     "DatePickerContentControl", "CheckboxContentControl"}

\* RunContentControl.validateNesting without its loop: nothing is rejected
RunContentControl_validateNesting_off(richText, children, heap) == "none"

\* RunContentControl.validateNesting applied whatever richText is
RunContentControl_validateNesting_always(richText, children, heap) ==
    IF \E i \in 1..Len(children) :
          ConstructorName(children[i], heap) \in NestedControlNames
    THEN "nesting"
    ELSE "none"

\* RunContentControl.validateNesting: the error thrown, "none" when it returns
RunContentControl_validateNesting(richText, children, heap) ==
    IF IsDef(richText) /\ Val(richText)
    THEN "none"
    ELSE IF \E i \in 1..Len(children) :
              ConstructorName(children[i], heap) \in NestedControlNames
    THEN "nesting"
    ELSE "none"

RunContentControl(options, heap, count) ==
    LET v == RunContentControl_validateOptions(options, heap)
        b == BindingCheck(options)
        g == contentControlIdGen(count)
    IN  IF v.err # "none" THEN Thrown(v.err, v.warns, count)
        ELSE IF b.err # "none" THEN Thrown(b.err, v.warns \o b.warns, count)
        ELSE IF RunContentControl_validateNesting(
                    options.richText, Val(options.children), heap) # "none"
        THEN Thrown(RunContentControl_validateNesting(
                        options.richText, Val(options.children), heap),
                    v.warns \o b.warns, g.count)
        ELSE Constructed(
                [variant |-> "RunContentControl",
                 tag |-> Val(options.tag),
                 title |-> options.title,
                 id |-> g.id,
                 appearance |-> options.appearance,
                 color |-> options.color,
                 dataBinding |-> options.dataBinding,
                 lock |-> options.lock,
                 placeholder |-> options.placeholder,
                 multiLine |-> options.multiLine,
                 maxLength |-> options.maxLength,
                 defaultStyle |-> options.defaultStyle,
                 richText |-> options.richText,
                 root |-> Val(options.children)],
                v.warns \o b.warns, g.count)

----------------------------------------------------------------------------
\* BlockContentControl

\* BlockContentControl.validateOptions without its fileChild test
BlockContentControl_validateOptions_anyComponent(options, heap) ==
    IF TagMissing(options) THEN [err |-> "tag", warns |-> <<>>]
    ELSE IF ChildrenMissing(options)
    THEN [err |-> "children", warns |-> TagWarning(options)]
    ELSE IF \E i \in 1..Len(Val(options.children)) :
              LET child == Val(options.children)[i] IN
              IsFalsy(child) \/ ~TypeofObject(child) \/ ~HasPrepForXml(child)
    THEN [err |-> "invalidChildren", warns |-> TagWarning(options)]
    ELSE [err |-> "none", warns |-> TagWarning(options) \o TitleWarning(options)]

BlockContentControl_validateOptions(options, heap) ==
    IF TagMissing(options) THEN [err |-> "tag", warns |-> <<>>]
    ELSE IF ChildrenMissing(options)
    THEN [err |-> "children", warns |-> TagWarning(options)]
    ELSE IF \E i \in 1..Len(Val(options.children)) :
              LET child == Val(options.children)[i] IN
              \/ IsFalsy(child) \/ ~TypeofObject(child) \/ ~HasPrepForXml(child)
              \/ ~HasFileChild(child, heap)
    THEN [err |-> "invalidChildren", warns |-> TagWarning(options)]
    ELSE [err |-> "none", warns |-> TagWarning(options) \o TitleWarning(options)]

BlockContentControl(options, heap, count) ==
    LET v == BlockContentControl_validateOptions(options, heap)
        b == BindingCheck(options)
        g == contentControlIdGen(count)
    IN  IF v.err # "none" THEN Thrown(v.err, v.warns, count)
        ELSE IF b.err # "none" THEN Thrown(b.err, v.warns \o b.warns, count)
        ELSE Constructed(
                [variant |-> "BlockContentControl",
                 tag |-> Val(options.tag),
                 title |-> options.title,
                 id |-> g.id,
                 appearance |-> options.appearance,
                 color |-> options.color,
                 dataBinding |-> options.dataBinding,
                 lock |-> options.lock,
                 placeholder |-> options.placeholder,
                 root |-> Val(options.children)],
                v.warns \o b.warns, g.count)

----------------------------------------------------------------------------
\* InlineRichTextContentControl

\* InlineRichTextContentControl.validateOptions refusing an empty array
InlineRichTextContentControl_validateOptions_nonEmpty(options) ==
    IF TagMissing(options) THEN [err |-> "tag", warns |-> <<>>]
    ELSE IF ChildrenMissing(options)
    THEN [err |-> "childrenNotArray", warns |-> <<>>]
    ELSE [err |-> "none", warns |-> TagWarning(options)]

\* Array.isArray(options.children) is modelled by IsDef: children is an array
\* or undefined.
InlineRichTextContentControl_validateOptions(options) ==
    IF TagMissing(options) THEN [err |-> "tag", warns |-> <<>>]
    ELSE IF ~IsDef(options.children)
    THEN [err |-> "childrenNotArray", warns |-> <<>>]
    ELSE [err |-> "none", warns |-> TagWarning(options)]

InlineRichTextContentControl(options, heap, count) ==
    LET v == InlineRichTextContentControl_validateOptions(options)
        b == BindingCheck(options)
        g == contentControlIdGen(count)
    IN  IF v.err # "none" THEN Thrown(v.err, v.warns, count)
        ELSE IF b.err # "none" THEN Thrown(b.err, v.warns \o b.warns, count)
        ELSE Constructed(
                [variant |-> "InlineRichTextContentControl",
                 tag |-> Val(options.tag),
                 title |-> options.title,
                 id |-> g.id,
                 appearance |-> options.appearance,
                 color |-> options.color,
                 dataBinding |-> options.dataBinding,
                 lock |-> options.lock,
                 placeholder |-> options.placeholder,
                 root |-> Val(options.children)],
                v.warns \o b.warns, g.count)

----------------------------------------------------------------------------
\* DropdownContentControl

\* the filter of invalid items looking at displayText only
InvalidListItem_displayTextOnly(item) ==
    ~IsDef(item.displayText) \/ Len(Trim(Val(item.displayText))) = 0

\* !item || typeof item.displayText !== "string" || typeof item.value !== "string"
\*   || item.displayText.trim().length === 0 || item.value.trim().length === 0
\* for an item whose two properties are strings or undefined
InvalidListItem(item) ==
    \/ ~IsDef(item.displayText)
    \/ ~IsDef(item.value)
    \/ Len(Trim(Val(item.displayText))) = 0
    \/ Len(Trim(Val(item.value))) = 0

\* values.indexOf(value), one-based
IndexOf(values, value) ==
    CHOOSE i \in 1..Len(values) :
        values[i] = value /\ \A k \in 1..(i - 1) : values[k] # value

\* values.filter((value, index) => values.indexOf(value) !== index): the
\* values the warning names
RECURSIVE DuplicatesFrom(_, _)
DuplicatesFrom(values, index) ==
    IF index > Len(values) THEN <<>>
    ELSE (IF IndexOf(values, values[index]) # index
          THEN <<values[index]>> ELSE <<>>)
         \o DuplicatesFrom(values, index + 1)

\* const values = options.listItems.map((item) => item.value); duplicateValues
duplicateValues(listItems) ==
    DuplicatesFrom([i \in 1..Len(listItems) |-> listItems[i].value], 1)

\* duplicateValues.length > 0
HasDuplicateValues(listItems) == duplicateValues(listItems) # <<>>

DropdownContentControl_validateOptions(options) ==
    IF TagMissing(options) THEN [err |-> "tag", warns |-> <<>>]
    ELSE IF ~IsDef(options.type) \/ Val(options.type) = ""
    THEN [err |-> "type", warns |-> <<>>]
    ELSE IF ~IsDef(options.listItems) \/ Len(Val(options.listItems)) = 0
    THEN [err |-> "listItems", warns |-> <<>>]
    ELSE IF \E i \in 1..Len(Val(options.listItems)) :
              InvalidListItem(Val(options.listItems)[i])
    THEN [err |-> "invalidItems", warns |-> <<>>]
    ELSE IF ChildrenMissing(options)
    THEN [err |-> "children", warns |-> <<>>]
    ELSE IF HasDuplicateValues(Val(options.listItems))
    THEN [err |-> "none", warns |-> <<"duplicateValues">>]
    ELSE NoError

DropdownContentControl(options, heap, count) ==
    LET v == DropdownContentControl_validateOptions(options)
        b == BindingCheck(options)
        g == contentControlIdGen(count)
    IN  IF v.err # "none" THEN Thrown(v.err, v.warns, count)
        ELSE IF b.err # "none" THEN Thrown(b.err, v.warns \o b.warns, count)
        ELSE Constructed(
                [variant |-> "DropdownContentControl",
                 tag |-> Val(options.tag),
                 title |-> options.title,
                 id |-> g.id,
                 type |-> Val(options.type),
                 listItems |-> Val(options.listItems),
                 appearance |-> options.appearance,
                 color |-> options.color,
                 dataBinding |-> options.dataBinding,
                 lock |-> options.lock,
                 placeholder |-> options.placeholder,
                 multiLine |-> options.multiLine,
                 maxLength |-> options.maxLength,
                 defaultStyle |-> options.defaultStyle,
                 root |-> Val(options.children)],
                v.warns \o b.warns, g.count)

----------------------------------------------------------------------------
\* DatePickerContentControl

\* the calendar types with one more
validCalendarTypes_withLunar == {"gregorian", "hijri", "hebrew", "taiwan", "lunar"}

validCalendarTypes == {"gregorian", "hijri", "hebrew", "taiwan"}

validStorageTypes == {"text", "date", "dateTime"}

\* /^[a-z]{2}-[A-Z]{2}$/.test(locale)
LowerCase ==
    {"a", "b", "c", "d", "e", "f", "g", "h", "i", "j", "k", "l", "m",
     "n", "o", "p", "q", "r", "s", "t", "u", "v", "w", "x", "y", "z"}

UpperCase ==
    {"A", "B", "C", "D", "E", "F", "G", "H", "I", "J", "K", "L", "M",
     "N", "O", "P", "Q", "R", "S", "T", "U", "V", "W", "X", "Y", "Z"}

LocaleMatches(locale) ==
    /\ Len(locale) = 5
    /\ locale[1] \in LowerCase /\ locale[2] \in LowerCase
    /\ locale[3] = "-"
    /\ locale[4] \in UpperCase /\ locale[5] \in UpperCase

\* x || d for an optional TLA+ string x
OrDefault(x, d) == IF IsDef(x) /\ Val(x) # "" THEN Val(x) ELSE d

\* x || d for an optional character sequence x
OrDefaultSeq(x, d) == IF IsDef(x) /\ Val(x) # <<>> THEN Val(x) ELSE d

\* dateFormat is a string or undefined, so the typeof test on it never throws.
DatePickerContentControl_validateOptions(options) ==
    IF TagMissing(options) THEN [err |-> "tag", warns |-> <<>>]
    ELSE IF ChildrenMissing(options)
    THEN [err |-> "children", warns |-> <<>>]
    ELSE IF /\ IsDef(options.calendarType) /\ Val(options.calendarType) # ""
            /\ Val(options.calendarType) \notin validCalendarTypes
    THEN [err |-> "calendarType", warns |-> <<>>]
    ELSE IF /\ IsDef(options.storeMappedDataAs) /\ Val(options.storeMappedDataAs) # ""
            /\ Val(options.storeMappedDataAs) \notin validStorageTypes
    THEN [err |-> "storeMappedDataAs", warns |-> <<>>]
    ELSE IF /\ IsDef(options.locale) /\ Val(options.locale) # <<>>
            /\ ~LocaleMatches(Val(options.locale))
    THEN [err |-> "none", warns |-> <<"locale">>]
    ELSE NoError

DefaultLocale == <<"e", "n", "-", "U", "S">>

DatePickerContentControl(options, heap, count) ==
    LET v == DatePickerContentControl_validateOptions(options)
        b == BindingCheck(options)
        g == contentControlIdGen(count)
    IN  IF v.err # "none" THEN Thrown(v.err, v.warns, count)
        ELSE IF b.err # "none" THEN Thrown(b.err, v.warns \o b.warns, count)
        ELSE Constructed(
                [variant |-> "DatePickerContentControl",
                 tag |-> Val(options.tag),
                 title |-> options.title,
                 id |-> g.id,
                 dateFormat |-> OrDefault(options.dateFormat, "MM/dd/yyyy"),
                 calendarType |-> OrDefault(options.calendarType, "gregorian"),
                 defaultDate |-> options.defaultDate,
                 locale |-> OrDefaultSeq(options.locale, DefaultLocale),
                 storeMappedDataAs |-> OrDefault(options.storeMappedDataAs, "text"),
                 appearance |-> options.appearance,
                 color |-> options.color,
                 dataBinding |-> options.dataBinding,
                 lock |-> options.lock,
                 placeholder |-> options.placeholder,
                 root |-> Val(options.children)],
                v.warns \o b.warns, g.count)

----------------------------------------------------------------------------
\* CheckboxContentControl

DEFAULT_CHECKED_SYMBOL == [font |-> "MS Gothic", character |-> "2612"]

DEFAULT_UNCHECKED_SYMBOL == [font |-> "MS Gothic", character |-> "2610"]

\* !symbol.font || !symbol.character
SymbolIncomplete(symbol) == symbol.font = "" \/ symbol.character = ""

CheckboxContentControl_validateOptions(options) ==
    IF TagMissing(options) THEN [err |-> "tag", warns |-> <<>>]
    ELSE IF IsDef(options.checkedSymbol) /\ SymbolIncomplete(Val(options.checkedSymbol))
    THEN [err |-> "checkedSymbol", warns |-> <<>>]
    ELSE IF IsDef(options.uncheckedSymbol) /\ SymbolIncomplete(Val(options.uncheckedSymbol))
    THEN [err |-> "uncheckedSymbol", warns |-> <<>>]
    ELSE IF ~IsDef(options.children)
    THEN [err |-> "childrenNotArray", warns |-> <<>>]
    ELSE IF Len(Val(options.children)) > 0
    THEN [err |-> "none", warns |-> <<"checkboxChildren">>]
    ELSE NoError

\* the constructor pushing the children to root as the other classes do
CheckboxContentControl_storing(options, heap, count) ==
    LET v == CheckboxContentControl_validateOptions(options)
        b == BindingCheck(options)
        g == contentControlIdGen(count)
    IN  IF v.err # "none" THEN Thrown(v.err, v.warns, count)
        ELSE IF b.err # "none" THEN Thrown(b.err, v.warns \o b.warns, count)
        ELSE Constructed(
                [variant |-> "CheckboxContentControl",
                 tag |-> Val(options.tag),
                 title |-> options.title,
                 id |-> g.id,
                 checked |-> IsDef(options.checked) /\ Val(options.checked),
                 checkedSymbol |->
                    IF IsDef(options.checkedSymbol) THEN Val(options.checkedSymbol)
                    ELSE DEFAULT_CHECKED_SYMBOL,
                 uncheckedSymbol |->
                    IF IsDef(options.uncheckedSymbol) THEN Val(options.uncheckedSymbol)
                    ELSE DEFAULT_UNCHECKED_SYMBOL,
                 appearance |-> options.appearance,
                 color |-> options.color,
                 dataBinding |-> options.dataBinding,
                 lock |-> options.lock,
                 placeholder |-> options.placeholder,
                 root |-> Val(options.children)],
                v.warns \o b.warns, g.count)

\* The constructor pushes nothing to root: the children are not stored.
CheckboxContentControl(options, heap, count) ==
    LET v == CheckboxContentControl_validateOptions(options)
        b == BindingCheck(options)
        g == contentControlIdGen(count)
    IN  IF v.err # "none" THEN Thrown(v.err, v.warns, count)
        ELSE IF b.err # "none" THEN Thrown(b.err, v.warns \o b.warns, count)
        ELSE Constructed(
                [variant |-> "CheckboxContentControl",
                 tag |-> Val(options.tag),
                 title |-> options.title,
                 id |-> g.id,
                 checked |-> IsDef(options.checked) /\ Val(options.checked),
                 checkedSymbol |->
                    IF IsDef(options.checkedSymbol) THEN Val(options.checkedSymbol)
                    ELSE DEFAULT_CHECKED_SYMBOL,
                 uncheckedSymbol |->
                    IF IsDef(options.uncheckedSymbol) THEN Val(options.uncheckedSymbol)
                    ELSE DEFAULT_UNCHECKED_SYMBOL,
                 appearance |-> options.appearance,
                 color |-> options.color,
                 dataBinding |-> options.dataBinding,
                 lock |-> options.lock,
                 placeholder |-> options.placeholder,
                 root |-> <<>>],
                v.warns \o b.warns, g.count)

----------------------------------------------------------------------------
\* prepForXml.  An IXmlableObject { name: ... } is [name, attr, children]:
\* attr is the sequence of the _attr pairs, children the nested objects.

El(name, attr, children) == [name |-> name, attr |-> attr, children |-> children]

\* a prepForXml call: it raised, or it returned xml (undefined or an object)
Raised == [raised |-> TRUE, xml |-> Undefined]

Returned(xml) == [raised |-> FALSE, xml |-> xml]

\* the common entries with both attributes of w:lock following contentLock
CommonProperties_lockTogether(ctl) ==
    (IF IsDef(ctl.title) /\ Val(ctl.title) # <<>>
     THEN <<El("w:alias", << <<"w:val", Val(ctl.title)>> >>, <<>>)>> ELSE <<>>)
    \o <<El("w:tag", << <<"w:val", ctl.tag>> >>, <<>>)>>
    \o <<El("w:id", << <<"w:val", NumToString(ctl.id)>> >>, <<>>)>>
    \o (IF IsDef(ctl.appearance) /\ Val(ctl.appearance) # ""
        THEN <<El("w:appearance", << <<"w:val", Val(ctl.appearance)>> >>, <<>>)>>
        ELSE <<>>)
    \o (IF IsDef(ctl.color) /\ Val(ctl.color) # ""
        THEN <<El("w:color", << <<"w:val", Val(ctl.color)>> >>, <<>>)>> ELSE <<>>)
    \o (IF IsDef(ctl.dataBinding)
        THEN <<El("w:dataBinding",
                  << <<"w:xpath", Val(ctl.dataBinding).xpath>>,
                     <<"w:storeItemID", Val(ctl.dataBinding).storeItemId>> >>,
                  <<>>)>>
        ELSE <<>>)
    \o (IF IsDef(ctl.lock)
        THEN <<El("w:lock",
                  (IF IsDef(Val(ctl.lock).contentLock) /\ Val(Val(ctl.lock).contentLock)
                   THEN << <<"w:contentLocked", "1">> >> ELSE <<>>)
                  \o (IF IsDef(Val(ctl.lock).contentLock) /\ Val(Val(ctl.lock).contentLock)
                      THEN << <<"w:sdtLocked", "1">> >> ELSE <<>>),
                  <<>>)>>
        ELSE <<>>)
    \o (IF IsDef(ctl.placeholder) /\ Val(ctl.placeholder) # ""
        THEN <<El("w:showingPlcHdr", <<>>, <<>>)>> ELSE <<>>)

\* the entries of w:sdtPr that every class writes first, in the code's order
CommonProperties(ctl) ==
    (IF IsDef(ctl.title) /\ Val(ctl.title) # <<>>
     THEN <<El("w:alias", << <<"w:val", Val(ctl.title)>> >>, <<>>)>> ELSE <<>>)
    \o <<El("w:tag", << <<"w:val", ctl.tag>> >>, <<>>)>>
    \o <<El("w:id", << <<"w:val", NumToString(ctl.id)>> >>, <<>>)>>
    \o (IF IsDef(ctl.appearance) /\ Val(ctl.appearance) # ""
        THEN <<El("w:appearance", << <<"w:val", Val(ctl.appearance)>> >>, <<>>)>>
        ELSE <<>>)
    \o (IF IsDef(ctl.color) /\ Val(ctl.color) # ""
        THEN <<El("w:color", << <<"w:val", Val(ctl.color)>> >>, <<>>)>> ELSE <<>>)
    \o (IF IsDef(ctl.dataBinding)
        THEN <<El("w:dataBinding",
                  << <<"w:xpath", Val(ctl.dataBinding).xpath>>,
                     <<"w:storeItemID", Val(ctl.dataBinding).storeItemId>> >>,
                  <<>>)>>
        ELSE <<>>)
    \o (IF IsDef(ctl.lock)
        THEN <<El("w:lock",
                  (IF IsDef(Val(ctl.lock).contentLock) /\ Val(Val(ctl.lock).contentLock)
                   THEN << <<"w:contentLocked", "1">> >> ELSE <<>>)
                  \o (IF IsDef(Val(ctl.lock).sdtLocked) /\ Val(Val(ctl.lock).sdtLocked)
                      THEN << <<"w:sdtLocked", "1">> >> ELSE <<>>),
                  <<>>)>>
        ELSE <<>>)
    \o (IF IsDef(ctl.placeholder) /\ Val(ctl.placeholder) # ""
        THEN <<El("w:showingPlcHdr", <<>>, <<>>)>> ELSE <<>>)

\* the members of a w:text object, written for truthy fields only
TextProperties_truthy(ctl) ==
    (IF IsDef(ctl.multiLine) /\ Val(ctl.multiLine)
     THEN <<El("w:multiLine", << <<"w:val", "1">> >>, <<>>)>>
     ELSE <<>>)
    \o (IF IsDef(ctl.maxLength) /\ Val(ctl.maxLength) # 0
        THEN <<El("w:maxLength",
                  << <<"w:val", NumToString(Val(ctl.maxLength))>> >>, <<>>)>>
        ELSE <<>>)

\* the members of a w:text object
TextProperties(ctl) ==
    (IF IsDef(ctl.multiLine)
     THEN <<El("w:multiLine",
               << <<"w:val", IF Val(ctl.multiLine) THEN "1" ELSE "0">> >>, <<>>)>>
     ELSE <<>>)
    \o (IF IsDef(ctl.maxLength)
        THEN <<El("w:maxLength",
                  << <<"w:val", NumToString(Val(ctl.maxLength))>> >>, <<>>)>>
        ELSE <<>>)

\* the w:rPr entry, if defaultStyle is set
DefaultStyleProperties(ctl) ==
    IF IsDef(ctl.defaultStyle)
    THEN LET style == Val(ctl.defaultStyle) IN
         <<El("w:rPr", <<>>,
              (IF IsDef(style.bold) /\ Val(style.bold)
               THEN <<El("w:b", <<>>, <<>>)>> ELSE <<>>)
              \o (IF IsDef(style.italic) /\ Val(style.italic)
                  THEN <<El("w:i", <<>>, <<>>)>> ELSE <<>>)
              \o (IF IsDef(style.color) /\ Val(style.color) # ""
                  THEN <<El("w:color", << <<"w:val", Val(style.color)>> >>, <<>>)>>
                  ELSE <<>>)
              \o (IF IsDef(style.fontSize) /\ Val(style.fontSize) # 0
                  THEN <<El("w:sz",
                            << <<"w:val", NumToString(Val(style.fontSize))>> >>, <<>>)>>
                  ELSE <<>>)
              \o (IF IsDef(style.fontFamily) /\ Val(style.fontFamily) # ""
                  THEN <<El("w:rFonts",
                            << <<"w:ascii", Val(style.fontFamily)>> >>, <<>>)>>
                  ELSE <<>>))>>
    ELSE <<>>

\* RunContentControl.prepForXml writing w:rPr ahead of the marker
RunPayload_styleFirst(ctl) ==
    DefaultStyleProperties(ctl)
    \o (IF IsDef(ctl.richText) /\ Val(ctl.richText)
        THEN <<El("w:richText", <<>>, <<>>)>>
        ELSE <<El("w:text", <<>>, TextProperties(ctl))>>)

\* RunContentControl.prepForXml writing w:text whatever richText is
RunPayload_plainOnly(ctl) ==
    <<El("w:text", <<>>, TextProperties(ctl))>> \o DefaultStyleProperties(ctl)

\* RunContentControl.prepForXml: the entries after the common ones
RunPayload(ctl) ==
    (IF IsDef(ctl.richText) /\ Val(ctl.richText)
     THEN <<El("w:richText", <<>>, <<>>)>>
     ELSE <<El("w:text", <<>>, TextProperties(ctl))>>)
    \o DefaultStyleProperties(ctl)

\* the two prepForXml writing w:rPr after the marker, as RunContentControl does
RichTextPayload_styled(ctl) ==
    <<El("w:richText", <<>>, <<>>), El("w:rPr", <<>>, <<>>)>>

\* BlockContentControl.prepForXml and InlineRichTextContentControl.prepForXml
RichTextPayload(ctl) == <<El("w:richText", <<>>, <<>>)>>

\* the w:listItem objects with the two strings exchanged
ListItemElements_exchanged(listItems) ==
    [i \in 1..Len(listItems) |->
        El("w:listItem",
           << <<"w:displayText", Val(listItems[i].value)>>,
              <<"w:value", Val(listItems[i].displayText)>> >>,
           <<>>)]

ListItemElements(listItems) ==
    [i \in 1..Len(listItems) |->
        El("w:listItem",
           << <<"w:displayText", Val(listItems[i].displayText)>>,
              <<"w:value", Val(listItems[i].value)>> >>,
           <<>>)]

\* DropdownContentControl.prepForXml with w:text written for both types
DropdownPayload_textAlways(ctl) ==
    <<El(IF ctl.type = "dropDownList" THEN "w:dropDownList" ELSE "w:comboBox",
         <<>>, ListItemElements(ctl.listItems))>>
    \o (IF IsDef(ctl.multiLine) \/ IsDef(ctl.maxLength)
        THEN <<El("w:text", <<>>, TextProperties(ctl))>> ELSE <<>>)
    \o DefaultStyleProperties(ctl)

\* DropdownContentControl.prepForXml: the entries after the common ones
DropdownPayload(ctl) ==
    <<El(IF ctl.type = "dropDownList" THEN "w:dropDownList" ELSE "w:comboBox",
         <<>>, ListItemElements(ctl.listItems))>>
    \o (IF ctl.type = "comboBox" /\ (IsDef(ctl.multiLine) \/ IsDef(ctl.maxLength))
        THEN <<El("w:text", <<>>, TextProperties(ctl))>> ELSE <<>>)
    \o DefaultStyleProperties(ctl)

\* Date.prototype.toISOString throws a RangeError on an invalid date
DateRaises(ctl) == IsDef(ctl.defaultDate) /\ ~Val(ctl.defaultDate).valid

\* DatePickerContentControl.prepForXml: the w:date entry
DatePayload(ctl) ==
    <<El("w:date", <<>>,
         <<El("w:dateFormat", << <<"w:val", ctl.dateFormat>> >>, <<>>),
           El("w:calendar", << <<"w:val", ctl.calendarType>> >>, <<>>),
           El("w:lid", << <<"w:val", ctl.locale>> >>, <<>>),
           El("w:storeMappedDataAs", << <<"w:val", ctl.storeMappedDataAs>> >>, <<>>)>>
         \o (IF IsDef(ctl.defaultDate)
             THEN <<El("w:fullDate",
                       << <<"w:val", Val(ctl.defaultDate).iso>> >>, <<>>)>>
             ELSE <<>>))>>

SymbolElements(symbol) ==
    <<El("w14:font", << <<"w14:val", symbol.font>> >>, <<>>),
      El("w14:val", << <<"w14:val", symbol.character>> >>, <<>>)>>

\* the w14:checkbox entry with the two states exchanged
CheckboxPayload_exchanged(ctl) ==
    <<El("w14:checkbox", <<>>,
         <<El("w14:checked",
              << <<"w14:val", IF ctl.checked THEN "1" ELSE "0">> >>, <<>>),
           El("w14:checkedState", <<>>, SymbolElements(ctl.uncheckedSymbol)),
           El("w14:uncheckedState", <<>>, SymbolElements(ctl.checkedSymbol))>>)>>

\* CheckboxContentControl.prepForXml: the w14:checkbox entry
CheckboxPayload(ctl) ==
    <<El("w14:checkbox", <<>>,
         <<El("w14:checked",
              << <<"w14:val", IF ctl.checked THEN "1" ELSE "0">> >>, <<>>),
           El("w14:checkedState", <<>>, SymbolElements(ctl.checkedSymbol)),
           El("w14:uncheckedState", <<>>, SymbolElements(ctl.uncheckedSymbol))>>)>>

Payload(ctl) ==
    CASE ctl.variant = "RunContentControl" -> RunPayload(ctl)
      [] ctl.variant = "BlockContentControl" -> RichTextPayload(ctl)
      [] ctl.variant = "InlineRichTextContentControl" -> RichTextPayload(ctl)
      [] ctl.variant = "DropdownContentControl" -> DropdownPayload(ctl)
      [] ctl.variant = "DatePickerContentControl" -> DatePayload(ctl)
      [] ctl.variant = "CheckboxContentControl" -> CheckboxPayload(ctl)

\* prepForXml of TextRun, Paragraph, Table and of a component that is empty
ExternalPrepForXml(child) ==
    CASE child.kind = "TextRun" -> Returned(Some(El("w:r", <<>>, <<>>)))
      [] child.kind = "Paragraph" -> Returned(Some(El("w:p", <<>>, <<>>)))
      [] child.kind = "Table" -> Returned(Some(El("w:tbl", <<>>, <<>>)))
      [] child.kind = "empty" -> Returned(Undefined)

RECURSIVE prepForXml(_, _)
RECURSIVE ProcessChild(_, _, _)
RECURSIVE ProcessChildren(_, _, _)

\* One step of this.root.map(...): guarded is the test
\* typeof child === "object" && "prepForXml" in child, which
\* InlineRichTextContentControl leaves out.  The in operator throws on null; a
\* call of a missing prepForXml throws.
ProcessChild(child, heap, guarded) ==
    CASE child.kind = "control" -> prepForXml(heap[child.ref], heap)
      [] child.kind = "null" -> Raised
      [] child.kind = "string" ->
            IF guarded THEN Returned(Some(El("#string", <<>>, <<>>))) ELSE Raised
      [] OTHER -> ExternalPrepForXml(child)

\* the map collecting the fragments last to first
RECURSIVE ProcessChildren_reversed(_, _, _)
ProcessChildren_reversed(root, heap, guarded) ==
    IF root = <<>> THEN [raised |-> FALSE, list |-> <<>>]
    ELSE LET first == ProcessChild(Head(root), heap, guarded)
             rest == ProcessChildren_reversed(Tail(root), heap, guarded)
         IN  IF first.raised \/ rest.raised
             THEN [raised |-> TRUE, list |-> <<>>]
             ELSE [raised |-> FALSE,
                   list |-> rest.list
                            \o (IF IsDef(first.xml) THEN <<Val(first.xml)>> ELSE <<>>)]

\* this.root.map(...).filter((child) => child !== undefined)
ProcessChildren(root, heap, guarded) ==
    IF root = <<>> THEN [raised |-> FALSE, list |-> <<>>]
    ELSE LET first == ProcessChild(Head(root), heap, guarded)
             rest == ProcessChildren(Tail(root), heap, guarded)
         IN  IF first.raised \/ rest.raised
             THEN [raised |-> TRUE, list |-> <<>>]
             ELSE [raised |-> FALSE,
                   list |-> (IF IsDef(first.xml) THEN <<Val(first.xml)>> ELSE <<>>)
                            \o rest.list]

\* prepForXml of a control: { "w:sdt": [sdtPr, sdtContent] }
prepForXml(ctl, heap) ==
    LET processedChildren ==
            ProcessChildren(ctl.root, heap,
                            ctl.variant # "InlineRichTextContentControl")
    IN  IF ctl.variant = "DatePickerContentControl" /\ DateRaises(ctl) THEN Raised
        ELSE IF processedChildren.raised THEN Raised
        ELSE Returned(Some(
                El("w:sdt", <<>>,
                   <<El("w:sdtPr", <<>>, CommonProperties(ctl) \o Payload(ctl)),
                     El("w:sdtContent", <<>>, processedChildren.list)>>)))

----------------------------------------------------------------------------
\* The inputs of the constructors.

ValidGuid ==
    <<"{", "1", "2", "3", "4", "5", "6", "7", "8", "-", "1", "2", "3", "4", "-",
      "5", "6", "7", "8", "-", "9", "A", "B", "C", "-",
      "a", "b", "c", "d", "e", "f", "1", "2", "3", "4", "5", "6", "}">>

\* "{approval-guid}"
ApprovalGuid ==
    <<"{", "a", "p", "p", "r", "o", "v", "a", "l", "-", "g", "u", "i", "d", "}">>

\* a GUID without its braces
BareGuid == SubSeq(ValidGuid, 2, GuidLength - 1)

\* a GUID with a character that is no hexadecimal digit
NonHexGuid == [ValidGuid EXCEPT ![2] = "G"]

\* a GUID followed by one more character
LongGuid == ValidGuid \o <<"0">>

AbsoluteXPath == <<"/", "r">>

RelativeXPath == <<"r">>

Binding(xpath, storeItemId) == [xpath |-> xpath, storeItemId |-> storeItemId]

NoOptions ==
    [tag |-> Undefined, title |-> Undefined, appearance |-> Undefined,
     color |-> Undefined, dataBinding |-> Undefined, lock |-> Undefined,
     placeholder |-> Undefined, multiLine |-> Undefined, maxLength |-> Undefined,
     defaultStyle |-> Undefined, richText |-> Undefined, children |-> Undefined,
     type |-> Undefined, listItems |-> Undefined, dateFormat |-> Undefined,
     calendarType |-> Undefined, defaultDate |-> Undefined, locale |-> Undefined,
     storeMappedDataAs |-> Undefined, checked |-> Undefined,
     checkedSymbol |-> Undefined, uncheckedSymbol |-> Undefined]

Tagged == [NoOptions EXCEPT !.tag = Some(<<"T">>)]

ListItem(displayText, value) ==
    [displayText |-> Some(displayText), value |-> Some(value)]

\* minimal options each constructor accepts
RunOptions == [Tagged EXCEPT !.children = Some(<<TextRun>>)]

BlockOptions == [Tagged EXCEPT !.children = Some(<<Paragraph>>)]

InlineOptions == [Tagged EXCEPT !.children = Some(<<TextRun>>)]

DropdownOptions ==
    [Tagged EXCEPT !.children = Some(<<TextRun>>),
                   !.type = Some("dropDownList"),
                   !.listItems = Some(<<ListItem(<<"A">>, <<"a">>)>>)]

DateOptions == [Tagged EXCEPT !.children = Some(<<TextRun>>)]

CheckboxOptions == [Tagged EXCEPT !.children = Some(<<>>)]

\* the control instances constructed so far, as children
Refs == {ControlChild(r) : r \in 1..Len(controls)}

----------------------------------------------------------------------------
\* The operations.

Init ==
    /\ controls = <<>>
    /\ idCount = 0
    /\ last = [op |-> "init"]
    /\ firstXml = <<>>

\* new Class(options), whose outcome is res
New(variant, options, res) ==
    /\ controls' = IF IsDef(res.ctl) THEN Append(controls, Val(res.ctl)) ELSE controls
    /\ firstXml' = IF IsDef(res.ctl) THEN Append(firstXml, Undefined) ELSE firstXml
    /\ idCount' = res.count
    /\ last' = [op |-> "new", variant |-> variant, options |-> options,
                err |-> res.err, warns |-> res.warns]

NewRun(options) ==
    New("RunContentControl", options, RunContentControl(options, controls, idCount))

NewBlock(options) ==
    New("BlockContentControl", options,
        BlockContentControl(options, controls, idCount))

NewInline(options) ==
    New("InlineRichTextContentControl", options,
        InlineRichTextContentControl(options, controls, idCount))

NewDropdown(options) ==
    New("DropdownContentControl", options,
        DropdownContentControl(options, controls, idCount))

NewDate(options) ==
    New("DatePickerContentControl", options,
        DatePickerContentControl(options, controls, idCount))

NewCheckbox(options) ==
    New("CheckboxContentControl", options,
        CheckboxContentControl(options, controls, idCount))

\* prepForXml drawing the w:id from the generator instead of reading this.id
PrepForXml_drawsId(r) ==
    LET g == contentControlIdGen(idCount)
        res == prepForXml([controls[r] EXCEPT !.id = g.id], controls)
    IN  /\ last' = [op |-> "prepForXml", ref |-> r, again |-> IsDef(firstXml[r]),
                    raised |-> res.raised, xml |-> res.xml]
        /\ firstXml' = IF IsDef(firstXml[r]) THEN firstXml
                       ELSE [firstXml EXCEPT ![r] = Some(res)]
        /\ idCount' = g.count
        /\ UNCHANGED controls

\* controls[r].prepForXml(context)
PrepForXml(r) ==
    LET res == prepForXml(controls[r], controls) IN
    /\ last' = [op |-> "prepForXml", ref |-> r, again |-> IsDef(firstXml[r]),
                raised |-> res.raised, xml |-> res.xml]
    /\ firstXml' = IF IsDef(firstXml[r]) THEN firstXml
                   ELSE [firstXml EXCEPT ![r] = Some(res)]
    /\ UNCHANGED <<controls, idCount>>

----------------------------------------------------------------------------
\* Spec: trees of every class, constructed and serialized.

\* room for one more control in a model of at most max controls
Room(max) == Len(controls) < max /\ idCount < max + 1

RunInputs ==
    {[RunOptions EXCEPT !.richText = richText, !.children = Some(children)] :
        richText \in {Undefined, Some(TRUE)},
        children \in {<<TextRun>>} \cup {<<TextRun, c>> : c \in Refs}}
    \cup {[RunOptions EXCEPT !.richText = Some(FALSE)]}

BlockInputs ==
    {[BlockOptions EXCEPT !.children = Some(children)] :
        children \in {<<Paragraph>>} \cup {<<c>> : c \in Refs}}

InlineInputs ==
    {[InlineOptions EXCEPT !.children = Some(children)] :
        children \in {<<TextRun>>, <<NullChild>>} \cup {<<c>> : c \in Refs}}

DropdownInputs == {DropdownOptions}

ValidDate == [valid |-> TRUE, iso |-> "2024-12-31T00:00:00.000Z"]

\* new Date(NaN)
InvalidDate == [valid |-> FALSE, iso |-> ""]

DateInputs ==
    {[DateOptions EXCEPT !.defaultDate = d] :
        d \in {Undefined, Some(ValidDate), Some(InvalidDate)}}

CheckboxInputs == {CheckboxOptions}

Next ==
    \/ \E options \in RunInputs : Room(MaxTree) /\ NewRun(options)
    \/ \E options \in BlockInputs : Room(MaxTree) /\ NewBlock(options)
    \/ \E options \in InlineInputs : Room(MaxTree) /\ NewInline(options)
    \/ \E options \in DropdownInputs : Room(MaxTree) /\ NewDropdown(options)
    \/ \E options \in DateInputs : Room(MaxTree) /\ NewDate(options)
    \/ \E options \in CheckboxInputs : Room(MaxTree) /\ NewCheckbox(options)
    \/ \E r \in 1..Len(controls) : PrepForXml(r)

Spec == Init /\ [][Next]_vars

----------------------------------------------------------------------------
\* SpecNesting: the constructors, on children lists that nest controls.

NestingChildren ==
    {<<TextRun>>}
    \cup {<<c>> : c \in Refs}
    \cup {<<TextRun, c>> : c \in Refs}

NestingRunInputs ==
    {[RunOptions EXCEPT !.richText = richText, !.children = Some(children)] :
        richText \in {Undefined, Some(TRUE)},
        children \in NestingChildren}
    \cup {[RunOptions EXCEPT !.richText = Some(FALSE), !.children = Some(<<c>>)] :
            c \in Refs \cup {TextRun}}
    \cup {[RunOptions EXCEPT !.children = Some(children)] :
            children \in {<<c, TextRun>> : c \in Refs}
                         \cup {<<StringChild, c>> : c \in Refs}}
    \cup {[RunOptions EXCEPT !.children = Some(<<c>>),
                             !.dataBinding = Some(Binding(AbsoluteXPath, key))] :
            c \in Refs, key \in {ApprovalGuid, ValidGuid}}

NextNesting ==
    \/ \E options \in NestingRunInputs : Room(MaxControls) /\ NewRun(options)
    \/ Room(MaxControls) /\ NewBlock(BlockOptions)
    \/ Room(MaxControls) /\ NewInline(InlineOptions)
    \/ Room(MaxControls) /\ NewDropdown(DropdownOptions)
    \/ Room(MaxControls) /\ NewDate(DateOptions)
    \/ Room(MaxControls) /\ NewCheckbox(CheckboxOptions)

SpecNesting == Init /\ [][NextNesting]_vars

----------------------------------------------------------------------------
\* SpecBinding: the constructors, on data bindings and on options that are
\* invalid in some other field as well.

Keys == {ValidGuid, ApprovalGuid, BareGuid, NonHexGuid, LongGuid, <<>>}

Bindings ==
    {Undefined}
    \cup {Some(Binding(AbsoluteXPath, key)) : key \in Keys}
    \cup {Some(Binding(xpath, key)) :
            xpath \in {<<>>, <<" ">>, RelativeXPath},
            key \in {ValidGuid, ApprovalGuid}}

\* bindings whose key is malformed, with and without a locator
BadBindings ==
    {Some(Binding(AbsoluteXPath, ApprovalGuid)), Some(Binding(<<>>, ApprovalGuid))}

\* the valid options with every binding, the broken ones with the bad bindings
BindingInputs(valid, broken) ==
    {[valid EXCEPT !.dataBinding = dataBinding] : dataBinding \in Bindings}
    \cup {[options EXCEPT !.dataBinding = dataBinding] :
            options \in broken, dataBinding \in BadBindings}

EmptyTag(options) == [options EXCEPT !.tag = Some(<<>>)]

BindingRunInputs ==
    BindingInputs(RunOptions,
                  {EmptyTag(RunOptions), [RunOptions EXCEPT !.children = Some(<<>>)]}
                  \cup {[RunOptions EXCEPT !.children = Some(<<c>>)] : c \in Refs})

BindingBlockInputs ==
    BindingInputs(BlockOptions,
                  {EmptyTag(BlockOptions),
                   [BlockOptions EXCEPT !.children = Some(<<TextRun>>)]})

BindingInlineInputs ==
    BindingInputs(InlineOptions,
                  {EmptyTag(InlineOptions),
                   [InlineOptions EXCEPT !.children = Undefined]})

BindingDropdownInputs ==
    BindingInputs(DropdownOptions,
                  {EmptyTag(DropdownOptions),
                   [DropdownOptions EXCEPT !.listItems = Some(<<>>)]})

BindingDateInputs ==
    BindingInputs(DateOptions,
                  {EmptyTag(DateOptions),
                   [DateOptions EXCEPT !.calendarType = Some("lunar")]})

BindingCheckboxInputs ==
    BindingInputs(CheckboxOptions,
                  {EmptyTag(CheckboxOptions),
                   [CheckboxOptions EXCEPT
                       !.checkedSymbol = Some([font |-> "Wingdings", character |-> ""])]})

NextBinding ==
    \/ \E options \in BindingRunInputs : Room(MaxTree) /\ NewRun(options)
    \/ \E options \in BindingBlockInputs : Room(MaxTree) /\ NewBlock(options)
    \/ \E options \in BindingInlineInputs : Room(MaxTree) /\ NewInline(options)
    \/ \E options \in BindingDropdownInputs : Room(MaxTree) /\ NewDropdown(options)
    \/ \E options \in BindingDateInputs : Room(MaxTree) /\ NewDate(options)
    \/ \E options \in BindingCheckboxInputs : Room(MaxTree) /\ NewCheckbox(options)

SpecBinding == Init /\ [][NextBinding]_vars

----------------------------------------------------------------------------
\* SpecDropdown: dropdown controls with text-formatting fields, serialized.

BoldStyle ==
    [bold |-> Some(TRUE), italic |-> Undefined, color |-> Undefined,
     fontSize |-> Undefined, fontFamily |-> Undefined]

TextFields ==
    {<<Undefined, Undefined, Undefined>>,
     <<Some(TRUE), Undefined, Undefined>>,
     <<Some(FALSE), Some(50), Undefined>>,
     <<Undefined, Some(0), Undefined>>,
     <<Undefined, Undefined, Some(BoldStyle)>>,
     <<Some(TRUE), Some(50), Some(BoldStyle)>>}

TextDropdownInputs ==
    {[DropdownOptions EXCEPT !.type = Some(type), !.multiLine = fields[1],
                             !.maxLength = fields[2], !.defaultStyle = fields[3]] :
        type \in {"dropDownList", "comboBox"}, fields \in TextFields}
    \cup {[DropdownOptions EXCEPT !.listItems = Some(<<>>), !.multiLine = Some(TRUE)]}

NextDropdown ==
    \/ \E options \in TextDropdownInputs : Room(MaxTree) /\ NewDropdown(options)
    \/ \E r \in 1..Len(controls) : PrepForXml(r)

SpecDropdown == Init /\ [][NextDropdown]_vars

----------------------------------------------------------------------------
\* The six constructors on tags of every kind and on the options that make
\* the code warn.

TagInputs ==
    {Undefined, Some(<<>>), Some(<<" ">>), Some(<<"\t", " ">>),
     Some(<<"T">>), Some(<<"A", " ", "B">>), Some(<<"A", "\t", "B">>)}

WithTags(options) == {[options EXCEPT !.tag = tag] : tag \in TagInputs}

SpacedTag(options) == [options EXCEPT !.tag = Some(<<"A", " ", "B">>)]

\* a title of 256 characters
LongTitle == [i \in 1..256 |-> "x"]

RelativeBinding == Some(Binding(RelativeXPath, ValidGuid))

TwoItemsOneValue == <<ListItem(<<"A">>, <<"a">>), ListItem(<<"B">>, <<"a">>)>>

DiagnosticRunInputs ==
    WithTags(RunOptions)
    \cup {[RunOptions EXCEPT !.title = Some(LongTitle)],
          [RunOptions EXCEPT !.dataBinding = RelativeBinding],
          [SpacedTag(RunOptions) EXCEPT !.title = Some(LongTitle),
                                        !.dataBinding = RelativeBinding],
          [SpacedTag(RunOptions) EXCEPT !.children = Some(<<>>)]}

DiagnosticBlockInputs ==
    WithTags(BlockOptions)
    \cup {[BlockOptions EXCEPT !.title = Some(LongTitle)],
          [SpacedTag(BlockOptions) EXCEPT !.children = Some(<<TextRun>>)]}

DiagnosticInlineInputs ==
    WithTags(InlineOptions)
    \cup {[InlineOptions EXCEPT !.dataBinding = RelativeBinding],
          [InlineOptions EXCEPT !.title = Some(LongTitle)]}

DiagnosticDropdownInputs ==
    WithTags(DropdownOptions)
    \cup {[DropdownOptions EXCEPT !.listItems = Some(TwoItemsOneValue)],
          [SpacedTag(DropdownOptions) EXCEPT !.listItems = Some(TwoItemsOneValue),
                                             !.dataBinding = RelativeBinding],
          [DropdownOptions EXCEPT !.listItems = Some(TwoItemsOneValue),
                                  !.children = Undefined]}

DiagnosticDateInputs ==
    WithTags(DateOptions)
    \cup {[DateOptions EXCEPT !.locale = Some(locale)] :
            locale \in {<<"e", "n">>, <<"e", "n", "-", "G", "B">>,
                        <<"E", "N", "-", "g", "b">>}}

DiagnosticCheckboxInputs ==
    WithTags(CheckboxOptions)
    \cup {[CheckboxOptions EXCEPT !.children = Some(<<TextRun>>)],
          [CheckboxOptions EXCEPT !.children = Some(<<TextRun>>),
                                  !.dataBinding = RelativeBinding]}

NextDiagnostics ==
    \/ \E options \in DiagnosticRunInputs : Room(MaxTree) /\ NewRun(options)
    \/ \E options \in DiagnosticBlockInputs : Room(MaxTree) /\ NewBlock(options)
    \/ \E options \in DiagnosticInlineInputs : Room(MaxTree) /\ NewInline(options)
    \/ \E options \in DiagnosticDropdownInputs : Room(MaxTree) /\ NewDropdown(options)
    \/ \E options \in DiagnosticDateInputs : Room(MaxTree) /\ NewDate(options)
    \/ \E options \in DiagnosticCheckboxInputs : Room(MaxTree) /\ NewCheckbox(options)

SpecDiagnostics == Init /\ [][NextDiagnostics]_vars

----------------------------------------------------------------------------
\* The six constructors on options with and without the optional common
\* properties, and prepForXml.

ContentLock == [contentLock |-> Some(TRUE), sdtLocked |-> Undefined]

\* every optional property of IContentControlProperties set
WithProperties(options) ==
    [options EXCEPT !.title = Some(<<"N">>),
                    !.appearance = Some("boundingBox"),
                    !.color = Some("FF0000"),
                    !.dataBinding = Some(Binding(AbsoluteXPath, ValidGuid)),
                    !.lock = Some(ContentLock),
                    !.placeholder = Some("Enter")]

\* every optional property of ITextContentControlProperties set as well
WithTextProperties(options) ==
    [WithProperties(options) EXCEPT !.multiLine = Some(TRUE),
                                    !.maxLength = Some(50),
                                    !.defaultStyle = Some(BoldStyle)]

PropertyRunInputs ==
    {RunOptions, WithTextProperties(RunOptions),
     [WithTextProperties(RunOptions) EXCEPT !.richText = Some(TRUE)]}

PropertyBlockInputs == {BlockOptions, WithProperties(BlockOptions)}

PropertyInlineInputs == {InlineOptions, WithProperties(InlineOptions)}

PropertyDropdownInputs ==
    {DropdownOptions, WithTextProperties(DropdownOptions),
     [WithTextProperties(DropdownOptions) EXCEPT !.type = Some("comboBox")]}

PropertyDateInputs == {DateOptions, WithProperties(DateOptions)}

PropertyCheckboxInputs == {CheckboxOptions, WithProperties(CheckboxOptions)}

NextProperties ==
    \/ \E options \in PropertyRunInputs : Room(MaxTree) /\ NewRun(options)
    \/ \E options \in PropertyBlockInputs : Room(MaxTree) /\ NewBlock(options)
    \/ \E options \in PropertyInlineInputs : Room(MaxTree) /\ NewInline(options)
    \/ \E options \in PropertyDropdownInputs : Room(MaxTree) /\ NewDropdown(options)
    \/ \E options \in PropertyDateInputs : Room(MaxTree) /\ NewDate(options)
    \/ \E options \in PropertyCheckboxInputs : Room(MaxTree) /\ NewCheckbox(options)
    \/ \E r \in 1..Len(controls) : PrepForXml(r)

SpecProperties == Init /\ [][NextProperties]_vars

----------------------------------------------------------------------------
\* The six constructors on children lists of several shapes, and prepForXml.

ContentRunInputs ==
    {[RunOptions EXCEPT !.richText = Some(TRUE), !.children = Some(children)] :
        children \in {<<EmptyComponent, TextRun>>}
                     \cup {<<TextRun, c>> : c \in Refs}
                     \cup {<<c, TextRun>> : c \in Refs}}

ContentBlockInputs ==
    {[BlockOptions EXCEPT !.children = Some(children)] :
        children \in {<<Paragraph>>} \cup {<<Table, c>> : c \in Refs}}

ContentInlineInputs ==
    {[InlineOptions EXCEPT !.children = Some(children)] :
        children \in {<<EmptyComponent>>} \cup {<<c>> : c \in Refs}}

ContentDropdownInputs ==
    {[DropdownOptions EXCEPT !.children = Some(<<StringChild, TextRun>>)]}

ContentDateInputs ==
    {[DateOptions EXCEPT !.children = Some(<<TextRun, EmptyComponent>>)]}

ContentCheckboxInputs ==
    {CheckboxOptions, [CheckboxOptions EXCEPT !.children = Some(<<TextRun>>)]}

NextContent ==
    \/ \E options \in ContentRunInputs : Room(MaxTree) /\ NewRun(options)
    \/ \E options \in ContentBlockInputs : Room(MaxTree) /\ NewBlock(options)
    \/ \E options \in ContentInlineInputs : Room(MaxTree) /\ NewInline(options)
    \/ \E options \in ContentDropdownInputs : Room(MaxTree) /\ NewDropdown(options)
    \/ \E options \in ContentDateInputs : Room(MaxTree) /\ NewDate(options)
    \/ \E options \in ContentCheckboxInputs : Room(MaxTree) /\ NewCheckbox(options)
    \/ \E r \in 1..Len(controls) : PrepForXml(r)

SpecContent == Init /\ [][NextContent]_vars

----------------------------------------------------------------------------
\* The six constructors, BlockContentControl on children of every kind.

BlockChildren ==
    {<<Paragraph>>, <<Table, Paragraph>>, <<TextRun>>, <<Paragraph, TextRun>>,
     <<EmptyComponent>>, <<NullChild>>, <<Paragraph, StringChild>>}
    \cup {<<c>> : c \in Refs}
    \cup {<<Paragraph, c>> : c \in Refs}

NestingBlockInputs ==
    {[BlockOptions EXCEPT !.children = Some(children)] : children \in BlockChildren}

NextBlock ==
    \/ Room(MaxControls) /\ NewRun(RunOptions)
    \/ \E options \in NestingBlockInputs : Room(MaxControls) /\ NewBlock(options)
    \/ Room(MaxControls) /\ NewInline(InlineOptions)
    \/ Room(MaxControls) /\ NewDropdown(DropdownOptions)
    \/ Room(MaxControls) /\ NewDate(DateOptions)
    \/ Room(MaxControls) /\ NewCheckbox(CheckboxOptions)

SpecBlock == Init /\ [][NextBlock]_vars

----------------------------------------------------------------------------
\* DropdownContentControl on types and option lists of every kind, and
\* prepForXml.

ItemA == ListItem(<<"A">>, <<"a">>)

ItemB == ListItem(<<"B">>, <<"b">>)

\* an item whose displayText is no string, and one whose value is blank
ItemWithoutText == [displayText |-> Undefined, value |-> Some(<<"a">>)]

ItemWithBlankValue == ListItem(<<"A">>, <<" ">>)

ListItemInputs ==
    {[DropdownOptions EXCEPT !.type = type, !.listItems = Some(<<ItemA, ItemB>>)] :
        type \in {Undefined, Some(""), Some("dropDownList"), Some("comboBox"),
                  Some("listBox")}}
    \cup {[DropdownOptions EXCEPT !.listItems = listItems] :
            listItems \in {Undefined, Some(<<>>), Some(<<ItemA>>),
                           Some(<<ItemB, ItemA>>), Some(TwoItemsOneValue),
                           Some(<<ItemWithoutText>>), Some(<<ItemWithBlankValue>>),
                           Some(<<ItemA, ItemWithoutText>>),
                           Some(<<ItemA, ItemWithBlankValue>>)}}

NextListItems ==
    \/ \E options \in ListItemInputs : Room(MaxTree) /\ NewDropdown(options)
    \/ \E r \in 1..Len(controls) : PrepForXml(r)

SpecListItems == Init /\ [][NextListItems]_vars

----------------------------------------------------------------------------
\* DatePickerContentControl on calendar types and storage types of every
\* kind, and prepForXml.

CalendarInputs ==
    {Undefined, Some(""), Some("gregorian"), Some("hijri"), Some("hebrew"),
     Some("taiwan"), Some("lunar"), Some("Gregorian")}

StorageInputs ==
    {Undefined, Some(""), Some("text"), Some("date"), Some("dateTime"),
     Some("datetime"), Some("number")}

DateEnumInputs ==
    {[DateOptions EXCEPT !.calendarType = calendarType] :
        calendarType \in CalendarInputs}
    \cup {[DateOptions EXCEPT !.storeMappedDataAs = storeMappedDataAs] :
            storeMappedDataAs \in StorageInputs}
    \cup {[DateOptions EXCEPT !.calendarType = Some("hebrew"),
                              !.storeMappedDataAs = Some("dateTime")],
          [DateOptions EXCEPT !.calendarType = Some("lunar"),
                              !.storeMappedDataAs = Some("number")]}

NextDate ==
    \/ \E options \in DateEnumInputs : Room(MaxTree) /\ NewDate(options)
    \/ \E r \in 1..Len(controls) : PrepForXml(r)

SpecDate == Init /\ [][NextDate]_vars

----------------------------------------------------------------------------
\* CheckboxContentControl on every checked state and on symbols given,
\* omitted and incomplete, and prepForXml.

Wingdings(character) == [font |-> "Wingdings", character |-> character]

CheckboxStateInputs ==
    {[CheckboxOptions EXCEPT !.checked = checked,
                             !.checkedSymbol = symbols[1],
                             !.uncheckedSymbol = symbols[2]] :
        checked \in {Undefined, Some(TRUE), Some(FALSE)},
        symbols \in {<<Undefined, Undefined>>,
                     <<Some(Wingdings("FE")), Undefined>>,
                     <<Some(Wingdings("FE")), Some(Wingdings("A8"))>>,
                     <<Some(Wingdings("")), Undefined>>,
                     <<Undefined, Some([font |-> "", character |-> "A8"])>>}}

NextCheckbox ==
    \/ \E options \in CheckboxStateInputs : Room(MaxTree) /\ NewCheckbox(options)
    \/ \E r \in 1..Len(controls) : PrepForXml(r)

SpecCheckbox == Init /\ [][NextCheckbox]_vars

----------------------------------------------------------------------------
\* RunContentControl with richText: true and InlineRichTextContentControl on
\* the same options.

RichOptions == [RunOptions EXCEPT !.richText = Some(TRUE)]

RichInputs ==
    {[RichOptions EXCEPT !.children = children] :
        children \in {Undefined, Some(<<>>), Some(<<TextRun>>), Some(<<NullChild>>),
                      Some(<<TextRun, StringChild>>), Some(<<EmptyComponent>>)}
                     \cup {Some(<<TextRun, c>>) : c \in Refs}}
    \cup {EmptyTag(RichOptions), [EmptyTag(RichOptions) EXCEPT !.children = Some(<<>>)],
          WithProperties(RichOptions), WithTextProperties(RichOptions),
          [RichOptions EXCEPT !.defaultStyle = Some(BoldStyle)],
          [RichOptions EXCEPT !.dataBinding = Some(Binding(AbsoluteXPath, BareGuid))],
          [RichOptions EXCEPT !.dataBinding = Some(Binding(AbsoluteXPath, BareGuid)),
                              !.children = Some(<<>>)]}

NextRich ==
    \/ \E options \in RichInputs : Room(MaxTree) /\ NewRun(options)
    \/ \E options \in RichInputs : Room(MaxTree) /\ NewInline(options)
    \/ \E r \in 1..Len(controls) : PrepForXml(r)

SpecRich == Init /\ [][NextRich]_vars

----------------------------------------------------------------------------
\* Controls with the lock and placeholder options, one control at a time.

MaxAlone == 1

Locks ==
    {Undefined, Some([contentLock |-> Undefined, sdtLocked |-> Some(TRUE)])}
    \cup {Some([contentLock |-> Some(content), sdtLocked |-> Some(sdt)]) :
             content, sdt \in BOOLEAN}

Placeholders == {Some(""), Some("Enter")}

WithMarkers(options) ==
    {[options EXCEPT !.lock = lock] : lock \in Locks}
    \cup {[options EXCEPT !.placeholder = placeholder] : placeholder \in Placeholders}

NextMarkers ==
    \/ \E options \in WithMarkers(RunOptions) : Room(MaxAlone) /\ NewRun(options)
    \/ \E options \in WithMarkers(BlockOptions) : Room(MaxAlone) /\ NewBlock(options)
    \/ \E options \in WithMarkers(InlineOptions) : Room(MaxAlone) /\ NewInline(options)
    \/ \E options \in WithMarkers(DropdownOptions) : Room(MaxAlone) /\ NewDropdown(options)
    \/ \E options \in WithMarkers(DateOptions) : Room(MaxAlone) /\ NewDate(options)
    \/ \E options \in WithMarkers(CheckboxOptions) : Room(MaxAlone) /\ NewCheckbox(options)
    \/ \E r \in 1..Len(controls) : PrepForXml(r)

SpecMarkers == Init /\ [][NextMarkers]_vars

----------------------------------------------------------------------------
\* Trees in which the caller places control instances freely, the same
\* instance more than once included.

PlacedChildren(leaf) == {<<leaf>>} \cup {<<c, d>> : c, d \in Refs}

NextPlacement ==
    \/ \E children \in PlacedChildren(TextRun) :
          /\ Room(MaxTree)
          /\ NewRun([RunOptions EXCEPT !.richText = Some(TRUE),
                                       !.children = Some(children)])
    \/ \E children \in PlacedChildren(Paragraph) :
          Room(MaxTree) /\ NewBlock([BlockOptions EXCEPT !.children = Some(children)])
    \/ \E children \in PlacedChildren(TextRun) :
          Room(MaxTree) /\ NewInline([InlineOptions EXCEPT !.children = Some(children)])
    \/ \E r \in 1..Len(controls) : PrepForXml(r)

SpecPlacement == Init /\ [][NextPlacement]_vars

----------------------------------------------------------------------------
\* The six constructors on options with and without children, and prepForXml.

ChildrenLists(leaf) ==
    {Undefined, Some(<<>>), Some(<<leaf>>)} \cup {Some(<<leaf, c>>) : c \in Refs}

WithChildren(options, leaf) ==
    {[options EXCEPT !.children = children] : children \in ChildrenLists(leaf)}

NextChildren ==
    \/ \E options \in WithChildren([RunOptions EXCEPT !.richText = Some(TRUE)], TextRun) :
          Room(MaxTree) /\ NewRun(options)
    \/ \E options \in WithChildren(BlockOptions, Paragraph) :
          Room(MaxTree) /\ NewBlock(options)
    \/ \E options \in WithChildren(InlineOptions, TextRun) :
          Room(MaxTree) /\ NewInline(options)
    \/ \E options \in WithChildren(DropdownOptions, TextRun) :
          Room(MaxTree) /\ NewDropdown(options)
    \/ \E options \in WithChildren(DateOptions, TextRun) :
          Room(MaxTree) /\ NewDate(options)
    \/ \E options \in WithChildren(CheckboxOptions, TextRun) :
          Room(MaxTree) /\ NewCheckbox(options)
    \/ \E r \in 1..Len(controls) : PrepForXml(r)

SpecChildren == Init /\ [][NextChildren]_vars

----------------------------------------------------------------------------
\* RunContentControl in both modes with the text-formatting fields.

TextRunInputs ==
    {[RunOptions EXCEPT !.richText = richText, !.multiLine = fields[1],
                        !.maxLength = fields[2], !.defaultStyle = fields[3]] :
        richText \in {Undefined, Some(TRUE)}, fields \in TextFields}
    \cup {[RunOptions EXCEPT !.richText = Some(FALSE), !.multiLine = Some(FALSE)]}

NextText ==
    \/ \E options \in TextRunInputs : Room(MaxTree) /\ NewRun(options)
    \/ \E r \in 1..Len(controls) : PrepForXml(r)

SpecText == Init /\ [][NextText]_vars

----------------------------------------------------------------------------
\* Vocabulary of the properties.

LastNew(variant) == last.op = "new" /\ last.variant = variant

LastFailed == last.op = "new" /\ last.err # "none"

Variants ==
    {"RunContentControl", "BlockContentControl", "InlineRichTextContentControl",
     "DropdownContentControl", "DatePickerContentControl", "CheckboxContentControl"}

\* the pattern {8hex-4hex-4hex-4hex-12hex}, braces literal, stated group by group
HexRun(key, from, to) == \A i \in from..to : key[i] \in HexDigits

KeyMatchesPattern(key) ==
    /\ Len(key) = 38
    /\ key[1] = "{" /\ HexRun(key, 2, 9)
    /\ key[10] = "-" /\ HexRun(key, 11, 14)
    /\ key[15] = "-" /\ HexRun(key, 16, 19)
    /\ key[20] = "-" /\ HexRun(key, 21, 24)
    /\ key[25] = "-" /\ HexRun(key, 26, 37)
    /\ key[38] = "}"

\* the options name a data binding whose key does not match the pattern
MalformedKey(options) ==
    /\ IsDef(options.dataBinding)
    /\ ~KeyMatchesPattern(Val(options.dataBinding).storeItemId)

\* the options' richText is absent or false
PlainText(richText) == ~IsDef(richText) \/ ~Val(richText)

\* the variant names of the controls among children
ControlsAmong(children) ==
    {controls[children[i].ref].variant :
        i \in {k \in 1..Len(children) : children[k].kind = "control"}}

\* the entries of the w:sdtPr list of a returned fragment, by name
SdtPr(xml) == Val(xml).children[1].children

HasEntry(xml, name) == \E k \in 1..Len(SdtPr(xml)) : SdtPr(xml)[k].name = name

\* the last call was prepForXml and returned a fragment
LastXml == last.op = "prepForXml" /\ ~last.raised

----------------------------------------------------------------------------
\* C1: the identity values of the constructed controls are pairwise distinct,
\* across the six classes.
IdsPairwiseDistinct ==
    \A i, j \in 1..Len(controls) : i # j => controls[i].id # controls[j].id

ThreeClassesConstructed ==
    /\ Len(controls) >= 3
    /\ Cardinality({controls[i].variant : i \in 1..Len(controls)}) >= 3

NestingErrorWhatever ==
    (/\ LastNew("RunContentControl")
     /\ PlainText(last.options.richText)
     /\ ~TagMissing(last.options)
     /\ ~ChildrenMissing(last.options)
     /\ ControlsAmong(Val(last.options.children)) \cap NestedControlNames # {})
        => last.err = "nesting"

\* C3 amended: such a construction always fails, and it fails with the nesting
\* error when every child is an object with prepForXml and the data binding,
\* if one is given, is valid.
NestingErrorAfterOtherChecks ==
    (/\ LastNew("RunContentControl")
     /\ PlainText(last.options.richText)
     /\ ~TagMissing(last.options)
     /\ ~ChildrenMissing(last.options)
     /\ ControlsAmong(Val(last.options.children)) \cap NestedControlNames # {})
        => /\ last.err # "none"
           /\ (/\ \A i \in 1..Len(Val(last.options.children)) :
                     Val(last.options.children)[i].kind
                        \in {"control", "TextRun", "Paragraph", "Table", "empty"}
               /\ IsDef(last.options.dataBinding)
                     => /\ \E k \in 1..Len(Val(last.options.dataBinding).xpath) :
                              Val(last.options.dataBinding).xpath[k] # " "
                        /\ KeyMatchesPattern(Val(last.options.dataBinding).storeItemId))
                  => last.err = "nesting"

NestingErrorBehindTextRun ==
    /\ LastNew("RunContentControl")
    /\ last.err = "nesting"
    /\ Len(Val(last.options.children)) = 2
    /\ Val(last.options.children)[1] = TextRun
    /\ ControlsAmong(Val(last.options.children)) = {"CheckboxContentControl"}

\* C4: no constructed plain-text RunContentControl has a control of any class
\* among its children.
PlainTextHoldsNoControl ==
    \A i \in 1..Len(controls) :
        (controls[i].variant = "RunContentControl" /\ PlainText(controls[i].richText))
            => \A k \in 1..Len(controls[i].root) : controls[i].root[k].kind # "control"

\* C5: options that fail in plain-text mode because of the nesting check alone
\* are accepted with richText: true.
RichTextAcceptsNesting ==
    (/\ LastNew("RunContentControl")
     /\ IsDef(last.options.richText) /\ Val(last.options.richText)
     /\ \E richText \in {Undefined, Some(FALSE)} :
           RunContentControl([last.options EXCEPT !.richText = richText],
                             controls, idCount).err = "nesting")
        => last.err = "none"

\* a rich-text control holding a rich-text control that holds a control
NestedThreeDeep ==
    /\ LastNew("RunContentControl") /\ last.err = "none"
    /\ Len(controls) >= 3
    /\ \E i, j \in 1..Len(controls) :
          /\ ControlChild(i) \in {controls[Len(controls)].root[k] :
                                    k \in 1..Len(controls[Len(controls)].root)}
          /\ controls[i].variant = "RunContentControl"
          /\ ControlChild(j) \in {controls[i].root[k] : k \in 1..Len(controls[i].root)}

\* C6: the serialized properties of a BlockContentControl, an
\* InlineRichTextContentControl and a RunContentControl with richText: true hold
\* w:richText and no w:text; those of a RunContentControl without richText hold
\* w:text and no w:richText; the first serialization had the same marker.
MarkerFollowsMode ==
    LastXml =>
        LET ctl == controls[last.ref]
            rich == \/ ctl.variant \in {"BlockContentControl",
                                        "InlineRichTextContentControl"}
                    \/ /\ ctl.variant = "RunContentControl"
                       /\ ~PlainText(ctl.richText)
            plain == ctl.variant = "RunContentControl" /\ PlainText(ctl.richText)
        IN  /\ rich => HasEntry(last.xml, "w:richText") /\ ~HasEntry(last.xml, "w:text")
            /\ plain => HasEntry(last.xml, "w:text") /\ ~HasEntry(last.xml, "w:richText")
            /\ (rich \/ plain)
                  => \A name \in {"w:richText", "w:text"} :
                        HasEntry(Val(firstXml[last.ref]).xml, name)
                           <=> HasEntry(last.xml, name)

RichRunSerializedAgain ==
    /\ LastXml /\ last.again
    /\ controls[last.ref].variant = "RunContentControl"
    /\ ~PlainText(controls[last.ref].richText)
    /\ HasEntry(last.xml, "w:richText")

TextFieldsOf(options) == <<options.multiLine, options.maxLength, options.defaultStyle>>

WithoutTextFields(options) ==
    [options EXCEPT !.multiLine = Undefined, !.maxLength = Undefined,
                    !.defaultStyle = Undefined]

LastDropdownXml(type) ==
    /\ LastXml
    /\ controls[last.ref].variant = "DropdownContentControl"
    /\ controls[last.ref].type = type

\* C8 as stated: a dropDownList given multiLine, maxLength or defaultStyle is
\* constructed, and its serialized properties hold neither w:text nor w:rPr.
DropDownListEmitsNoTextField ==
    LastDropdownXml("dropDownList")
        => ~HasEntry(last.xml, "w:text") /\ ~HasEntry(last.xml, "w:rPr")

\* C8 amended: the three fields never change the outcome of the constructor; a
\* dropDownList never emits w:text, a comboBox emits it exactly when multiLine
\* or maxLength is given, and both types emit w:rPr exactly when defaultStyle
\* is given.
DropDownListEmitsNoTextEntry ==
    /\ LastNew("DropdownContentControl")
          => last.err = DropdownContentControl(WithoutTextFields(last.options),
                                               controls, idCount).err
    /\ LastDropdownXml("dropDownList") => ~HasEntry(last.xml, "w:text")
    /\ LastDropdownXml("comboBox")
          => (HasEntry(last.xml, "w:text")
                <=> \/ IsDef(controls[last.ref].multiLine)
                    \/ IsDef(controls[last.ref].maxLength))
    /\ \A type \in {"dropDownList", "comboBox"} :
          LastDropdownXml(type)
             => (HasEntry(last.xml, "w:rPr") <=> IsDef(controls[last.ref].defaultStyle))

StyledDropDownListSerialized ==
    /\ LastDropdownXml("dropDownList")
    /\ IsDef(controls[last.ref].multiLine)
    /\ IsDef(controls[last.ref].maxLength)
    /\ IsDef(controls[last.ref].defaultStyle)
    /\ HasEntry(last.xml, "w:rPr")

\* the error of the variant's own validateOptions
OptionsError(variant, options) ==
    CASE variant = "RunContentControl"
            -> RunContentControl_validateOptions(options, controls).err
      [] variant = "BlockContentControl"
            -> BlockContentControl_validateOptions(options, controls).err
      [] variant = "InlineRichTextContentControl"
            -> InlineRichTextContentControl_validateOptions(options).err
      [] variant = "DropdownContentControl"
            -> DropdownContentControl_validateOptions(options).err
      [] variant = "DatePickerContentControl"
            -> DatePickerContentControl_validateOptions(options).err
      [] variant = "CheckboxContentControl"
            -> CheckboxContentControl_validateOptions(options).err

BindingErrors == {"guid", "xpath"}

SerializationNeverRaises == last.op = "prepForXml" => ~last.raised

----------------------------------------------------------------------------
\* Vocabulary of the properties on options.

Blank == {" ", "\t", "\n"}

\* the string has a character that is not white space
NonBlank(str) == \E k \in 1..Len(str) : str[k] \notin Blank

\* the string has a white-space character
HasWhiteSpace(str) == \E k \in 1..Len(str) : str[k] \in Blank

Warned(warning) == \E k \in 1..Len(last.warns) : last.warns[k] = warning

Serializable == {"control", "TextRun", "Paragraph", "Table", "empty"}

BlockLevel(child) ==
    \/ child.kind \in {"Paragraph", "Table"}
    \/ child.kind = "control" /\ controls[child.ref].variant = "BlockContentControl"

\* the hard requirements of each class, stated on the options
HardValid(variant, options) ==
    /\ IsDef(options.tag) /\ NonBlank(Val(options.tag))
    /\ IsDef(options.dataBinding)
          => /\ NonBlank(Val(options.dataBinding).xpath)
             /\ KeyMatchesPattern(Val(options.dataBinding).storeItemId)
    /\ variant \in {"RunContentControl", "BlockContentControl",
                    "DropdownContentControl", "DatePickerContentControl"}
          => IsDef(options.children) /\ Val(options.children) # <<>>
    /\ variant \in {"InlineRichTextContentControl", "CheckboxContentControl"}
          => IsDef(options.children)
    /\ variant = "RunContentControl"
          => /\ \A k \in 1..Len(Val(options.children)) :
                   Val(options.children)[k].kind \in Serializable
             /\ PlainText(options.richText)
                   => ControlsAmong(Val(options.children)) \cap NestedControlNames = {}
    /\ variant = "BlockContentControl"
          => \A k \in 1..Len(Val(options.children)) :
                BlockLevel(Val(options.children)[k])
    /\ variant = "DropdownContentControl"
          => /\ IsDef(options.type) /\ Val(options.type) # ""
             /\ IsDef(options.listItems) /\ Val(options.listItems) # <<>>
             /\ \A k \in 1..Len(Val(options.listItems)) :
                   LET item == Val(options.listItems)[k] IN
                   /\ IsDef(item.displayText) /\ NonBlank(Val(item.displayText))
                   /\ IsDef(item.value) /\ NonBlank(Val(item.value))
    /\ variant = "DatePickerContentControl"
          => /\ IsDef(options.calendarType)
                   => Val(options.calendarType)
                         \in {"", "gregorian", "hijri", "hebrew", "taiwan"}
             /\ IsDef(options.storeMappedDataAs)
                   => Val(options.storeMappedDataAs) \in {"", "text", "date", "dateTime"}
    /\ variant = "CheckboxContentControl"
          => \A symbol \in {options.checkedSymbol, options.uncheckedSymbol} :
                IsDef(symbol) => Val(symbol).font # "" /\ Val(symbol).character # ""

----------------------------------------------------------------------------
\* C11: a constructor given no tag, an empty tag or a tag of white space only
\* fails, and no constructed control has such a tag.
TagNeverBlank ==
    /\ \A i \in 1..Len(controls) : NonBlank(controls[i].tag)
    /\ (last.op = "new"
        /\ (~IsDef(last.options.tag) \/ ~NonBlank(Val(last.options.tag))))
          => last.err # "none"

WhiteSpaceTagRejected ==
    /\ last.op = "new" /\ last.err = "tag"
    /\ last.options.tag = Some(<<"\t", " ">>)
    /\ Len(controls) >= 1

\* the place of each entry of w:sdtPr in the prescribed order
Rank(name) ==
    CASE name = "w:alias" -> 1
      [] name = "w:tag" -> 2
      [] name = "w:id" -> 3
      [] name = "w:appearance" -> 4
      [] name = "w:color" -> 5
      [] name = "w:dataBinding" -> 6
      [] name = "w:lock" -> 7
      [] name = "w:showingPlcHdr" -> 8
      [] name \in {"w:richText", "w:dropDownList", "w:comboBox", "w:date",
                   "w14:checkbox"} -> 9
      [] name = "w:text" -> 10
      [] name = "w:rPr" -> 11
      [] OTHER -> 0

\* the names the payload fragment of a class may have
PayloadNames(variant) ==
    CASE variant = "RunContentControl" -> {"w:text", "w:richText"}
      [] variant = "BlockContentControl" -> {"w:richText"}
      [] variant = "InlineRichTextContentControl" -> {"w:richText"}
      [] variant = "DropdownContentControl" -> {"w:dropDownList", "w:comboBox"}
      [] variant = "DatePickerContentControl" -> {"w:date"}
      [] variant = "CheckboxContentControl" -> {"w14:checkbox"}

SdtContent(xml) == Val(xml).children[2].children

\* what a child contributes to the content of its parent: the fragment of a
\* nested control, of an external component, or a raw string as it is
Fragment(child) ==
    CASE child.kind = "control" -> prepForXml(controls[child.ref], controls)
      [] child.kind = "string" -> Returned(Some(El("#string", <<>>, <<>>)))
      [] OTHER -> ExternalPrepForXml(child)

\* the content is the fragments of the children of root that yield one, in
\* the order of root
ContentFollows(content, root) ==
    LET kept == {i \in 1..Len(root) : IsDef(Fragment(root[i]).xml)} IN
    /\ Len(content) = Cardinality(kept)
    /\ \A i \in kept :
          content[Cardinality({j \in kept : j <= i})] = Val(Fragment(root[i]).xml)

LastConstructed == last.op = "new" /\ last.err = "none"

\* C13 as stated: for every class the children supplied at construction are
\* the children serialized: the constructor stores them all, in order, and
\* w:sdtContent is their fragments in that order, without the undefined ones.
ContentIsSuppliedChildren ==
    /\ LastConstructed
          => controls[Len(controls)].root = Val(last.options.children)
    /\ LastXml => ContentFollows(SdtContent(last.xml), controls[last.ref].root)

\* C13 amended: that holds for the five classes other than
\* CheckboxContentControl, whose constructor stores no child and whose
\* w:sdtContent is empty.
ContentIsStoredChildren ==
    /\ (LastConstructed /\ last.variant # "CheckboxContentControl")
          => controls[Len(controls)].root = Val(last.options.children)
    /\ LastNew("CheckboxContentControl") /\ last.err = "none"
          => controls[Len(controls)].root = <<>>
    /\ LastXml => ContentFollows(SdtContent(last.xml), controls[last.ref].root)
    /\ (LastXml /\ controls[last.ref].variant = "CheckboxContentControl")
          => SdtContent(last.xml) = <<>>

NestedFragmentInPlace ==
    /\ LastXml
    /\ Len(controls[last.ref].root) = 2
    /\ controls[last.ref].root[2].kind = "control"
    /\ Len(SdtContent(last.xml)) = 2
    /\ SdtContent(last.xml)[2].name = "w:sdt"
    /\ Len(SdtContent(last.xml)[2].children) = 2

\* C14: BlockContentControl construction fails when a child is not block-level
\* content (a TextRun, an inline control, a value without prepForXml), and
\* accepts paragraphs, tables and BlockContentControls, nested to any depth.
BlockHoldsBlockContent ==
    /\ LastNew("BlockContentControl")
          => (last.err = "none"
                <=> \A k \in 1..Len(Val(last.options.children)) :
                       BlockLevel(Val(last.options.children)[k]))
    /\ \A i \in 1..Len(controls) :
          controls[i].variant = "BlockContentControl"
             => \A k \in 1..Len(controls[i].root) : BlockLevel(controls[i].root[k])

\* a block in a block in a block, after an inline control was refused
BlocksThreeDeep ==
    /\ LastNew("BlockContentControl") /\ last.err = "none"
    /\ Len(controls) = 3
    /\ \A i \in 1..3 : controls[i].variant = "BlockContentControl"
    /\ ControlChild(2) = controls[3].root[Len(controls[3].root)]
    /\ ControlChild(1) = controls[2].root[Len(controls[2].root)]

\* the option has two strings, neither blank
CompleteItem(item) ==
    /\ IsDef(item.displayText) /\ NonBlank(Val(item.displayText))
    /\ IsDef(item.value) /\ NonBlank(Val(item.value))

\* C15: DropdownContentControl construction fails without a type, without
\* options, or with an option whose displayText or value is no string or is
\* blank; every constructed dropdown has an option and only complete ones.
DropdownHasCompleteItems ==
    /\ LastNew("DropdownContentControl")
          => ((\/ ~IsDef(last.options.type)
               \/ ~IsDef(last.options.listItems)
               \/ Val(last.options.listItems) = <<>>
               \/ \E k \in 1..Len(Val(last.options.listItems)) :
                     ~CompleteItem(Val(last.options.listItems)[k]))
                 => last.err # "none")
    /\ \A i \in 1..Len(controls) :
          controls[i].variant = "DropdownContentControl"
             => /\ Len(controls[i].listItems) >= 1
                /\ \A k \in 1..Len(controls[i].listItems) :
                      CompleteItem(controls[i].listItems[k])

SecondItemRejected ==
    /\ LastNew("DropdownContentControl") /\ last.err = "invalidItems"
    /\ last.options.listItems = Some(<<ItemA, ItemWithBlankValue>>)
    /\ Len(controls) >= 1

\* the entries of w:sdtPr named w:dropDownList or w:comboBox
ListEntries(xml) ==
    {k \in 1..Len(SdtPr(xml)) : SdtPr(xml)[k].name \in {"w:dropDownList", "w:comboBox"}}

\* C16: the serialized properties of a DropdownContentControl hold exactly one
\* of w:dropDownList and w:comboBox, the one of its type, and that entry holds
\* one w:listItem per option, in order, with the option's two strings.
OneListOfItems ==
    (LastXml /\ controls[last.ref].variant = "DropdownContentControl")
        => LET ctl == controls[last.ref] IN
           /\ Cardinality(ListEntries(last.xml)) = 1
           /\ \A k \in ListEntries(last.xml) :
                 LET list == SdtPr(last.xml)[k] IN
                 /\ ctl.type = "dropDownList" => list.name = "w:dropDownList"
                 /\ ctl.type = "comboBox" => list.name = "w:comboBox"
                 /\ Len(list.children) = Len(ctl.listItems)
                 /\ \A n \in 1..Len(ctl.listItems) :
                       /\ list.children[n].name = "w:listItem"
                       /\ list.children[n].attr
                             = << <<"w:displayText", Val(ctl.listItems[n].displayText)>>,
                                  <<"w:value", Val(ctl.listItems[n].value)>> >>

TwoItemsSerializedInOrder ==
    /\ LastXml
    /\ controls[last.ref].variant = "DropdownContentControl"
    /\ controls[last.ref].type = "comboBox"
    /\ controls[last.ref].listItems = <<ItemA, ItemB>>
    /\ \E k \in ListEntries(last.xml) : Len(SdtPr(last.xml)[k].children) = 2

\* the values two options of the list share
SharedValues(listItems) ==
    {listItems[i].value : i \in {k \in 1..Len(listItems) :
        \E j \in 1..Len(listItems) : j # k /\ listItems[j].value = listItems[k].value}}

\* C17: options that meet every hard requirement are constructed, whatever
\* warnings they cause; a dropdown with two options of one value is constructed
\* with a warning that names the value.
WarningsNeverAbort ==
    (last.op = "new" /\ HardValid(last.variant, last.options))
        => /\ last.err = "none"
           /\ (/\ last.variant = "DropdownContentControl"
               /\ SharedValues(Val(last.options.listItems)) # {})
                 => /\ Warned("duplicateValues")
                    /\ LET named == duplicateValues(Val(last.options.listItems)) IN
                       SharedValues(Val(last.options.listItems))
                          = {named[k] : k \in 1..Len(named)}

DuplicateValueWarned ==
    /\ LastNew("DropdownContentControl") /\ last.err = "none"
    /\ Warned("duplicateValues") /\ Warned("relativeXpath")
    /\ duplicateValues(Val(last.options.listItems)) = <<Some(<<"a">>)>>

\* C18: a constructor of any class given an otherwise valid tag with white
\* space in it warns about the tag, and constructs the control.
WhiteSpaceInTagWarned ==
    (/\ last.op = "new"
     /\ HardValid(last.variant, last.options)
     /\ HasWhiteSpace(Val(last.options.tag)))
        => last.err = "none" /\ Warned("tagSpaces")

LegalCalendars == {"gregorian", "hijri", "hebrew", "taiwan"}

LegalStorage == {"text", "date", "dateTime"}

\* the w:val of the entry called name inside the w:date entry
DateValue(xml, name) ==
    LET date == SdtPr(xml)[CHOOSE k \in 1..Len(SdtPr(xml)) :
                              SdtPr(xml)[k].name = "w:date"]
        entry == date.children[CHOOSE k \in 1..Len(date.children) :
                                  date.children[k].name = name]
    IN  entry.attr[1][2]

LastDateXml == LastXml /\ controls[last.ref].variant = "DatePickerContentControl"

\* every serialized date payload has a legal calendar and a legal storage type
DatePayloadLegal ==
    LastDateXml
        => /\ HasEntry(last.xml, "w:date")
           /\ DateValue(last.xml, "w:calendar") \in LegalCalendars
           /\ DateValue(last.xml, "w:storeMappedDataAs") \in LegalStorage
           /\ DateValue(last.xml, "w:calendar") = controls[last.ref].calendarType
           /\ DateValue(last.xml, "w:storeMappedDataAs")
                 = controls[last.ref].storeMappedDataAs

\* C19 as stated: DatePickerContentControl construction fails for every
\* supplied calendarType and storeMappedDataAs outside the legal sets; omitted,
\* they are gregorian and text; the serialized values are legal.
SuppliedEnumsChecked ==
    /\ LastNew("DatePickerContentControl")
          => /\ (\/ /\ IsDef(last.options.calendarType)
                    /\ Val(last.options.calendarType) \notin LegalCalendars
                 \/ /\ IsDef(last.options.storeMappedDataAs)
                    /\ Val(last.options.storeMappedDataAs) \notin LegalStorage)
                   => last.err # "none"
             /\ last.err = "none"
                   => /\ ~IsDef(last.options.calendarType)
                            => controls[Len(controls)].calendarType = "gregorian"
                      /\ ~IsDef(last.options.storeMappedDataAs)
                            => controls[Len(controls)].storeMappedDataAs = "text"
    /\ DatePayloadLegal

\* C19 amended: construction fails for every supplied non-empty calendarType
\* and storeMappedDataAs outside the legal sets; omitted or empty, they are
\* gregorian and text; the serialized values are legal.
TruthyEnumsChecked ==
    /\ LastNew("DatePickerContentControl")
          => /\ (\/ /\ IsDef(last.options.calendarType)
                    /\ Val(last.options.calendarType) \notin LegalCalendars \cup {""}
                 \/ /\ IsDef(last.options.storeMappedDataAs)
                    /\ Val(last.options.storeMappedDataAs) \notin LegalStorage \cup {""})
                   => last.err # "none"
             /\ last.err = "none"
                   => /\ last.options.calendarType \in {Undefined, Some("")}
                            => controls[Len(controls)].calendarType = "gregorian"
                      /\ last.options.storeMappedDataAs \in {Undefined, Some("")}
                            => controls[Len(controls)].storeMappedDataAs = "text"
    /\ DatePayloadLegal

DefaultsAndChoiceSerialized ==
    /\ LastDateXml
    /\ DateValue(last.xml, "w:calendar") = "hijri"
    /\ DateValue(last.xml, "w:storeMappedDataAs") = "text"
    /\ Len(controls) = 2
    /\ controls[1].calendarType = "gregorian"

\* the w14:checkedState or w14:uncheckedState entry of a symbol
StateEntry(name, font, character) ==
    El(name, <<>>,
       <<El("w14:font", << <<"w14:val", font>> >>, <<>>),
         El("w14:val", << <<"w14:val", character>> >>, <<>>)>>)

\* the symbol the options give, or the default of the state
SymbolOr(symbol, character) ==
    IF IsDef(symbol) THEN Val(symbol)
    ELSE [font |-> "MS Gothic", character |-> character]

----------------------------------------------------------------------------
\* what RunContentControl makes of the options with richText: true
AsRichRun(options) ==
    RunContentControl([options EXCEPT !.richText = Some(TRUE)], controls, idCount)

\* C21 as stated: InlineRichTextContentControl construction succeeds exactly
\* when RunContentControl construction with the same options and richText:
\* true succeeds.
InlineAcceptsWhatRichRunAccepts ==
    LastNew("InlineRichTextContentControl")
        => (last.err = "none" <=> AsRichRun(last.options).err = "none")

\* C21 amended: InlineRichTextContentControl accepts every options value that
\* RunContentControl with richText: true accepts, and more: it accepts every
\* children array; the two differ exactly on an empty array and on an array
\* with an element that is no object with prepForXml.
InlineAcceptsEveryArray ==
    LastNew("InlineRichTextContentControl")
        => /\ AsRichRun(last.options).err = "none" => last.err = "none"
           /\ HardValid(last.variant, last.options) => last.err = "none"
           /\ last.err = "none"
                 => (AsRichRun(last.options).err # "none"
                       <=> \/ Val(last.options.children) = <<>>
                           \/ \E k \in 1..Len(Val(last.options.children)) :
                                 Val(last.options.children)[k].kind \notin Serializable)

EmptyArrayAcceptedByInline ==
    /\ LastNew("InlineRichTextContentControl") /\ last.err = "none"
    /\ last.options.children = Some(<<>>)
    /\ AsRichRun(last.options).err = "children"
    /\ \E i \in 1..Len(controls) : controls[i].variant = "RunContentControl"

----------------------------------------------------------------------------
\* the options of RichInputs from which InlineRichTextContentControl builds
\* the control r
InlineBuiltFrom(r) ==
    {options \in RichInputs :
        LET res == InlineRichTextContentControl(options, controls, controls[r].id - 1)
        IN  res.err = "none" /\ Val(res.ctl) = controls[r]}

\* the fragment of the RunContentControl built from the options with
\* richText: true, with the id of the control r
RichRunFragment(options, r) ==
    prepForXml([Val(AsRichRun(options).ctl) EXCEPT !.id = controls[r].id], controls).xml

LastInlineXml ==
    LastXml /\ controls[last.ref].variant = "InlineRichTextContentControl"

\* C22 as stated: the fragment of an InlineRichTextContentControl is the
\* fragment of the RunContentControl built from the same options with
\* richText: true, the value of w:id apart.
InlineSerializesAsRichRun ==
    LastInlineXml
        => \A options \in InlineBuiltFrom(last.ref) :
              AsRichRun(options).err = "none"
                 => last.xml = RichRunFragment(options, last.ref)

\* C22 amended: the two fragments have the same w:sdtContent; they have the
\* same w:sdtPr when no defaultStyle was supplied, and with a defaultStyle
\* the w:sdtPr of the RunContentControl is the one of the
\* InlineRichTextContentControl followed by one w:rPr entry.
InlineSerializesAsUnstyledRichRun ==
    LastInlineXml
        => \A options \in InlineBuiltFrom(last.ref) :
              AsRichRun(options).err = "none"
                 => LET run == RichRunFragment(options, last.ref) IN
                    /\ SdtContent(run) = SdtContent(last.xml)
                    /\ ~IsDef(options.defaultStyle) => run = last.xml
                    /\ IsDef(options.defaultStyle)
                          => /\ Len(SdtPr(run)) = Len(SdtPr(last.xml)) + 1
                             /\ SubSeq(SdtPr(run), 1, Len(SdtPr(last.xml))) = SdtPr(last.xml)
                             /\ SdtPr(run)[Len(SdtPr(run))].name = "w:rPr"
                             /\ ~HasEntry(last.xml, "w:rPr")

StyledInlineSerialized ==
    /\ LastInlineXml
    /\ \E options \in InlineBuiltFrom(last.ref) :
          /\ IsDef(options.defaultStyle) /\ IsDef(options.lock)
          /\ AsRichRun(options).err = "none"
          /\ RichRunFragment(options, last.ref) # last.xml
    /\ \E r \in 1..Len(controls) :
          /\ controls[r].variant = "InlineRichTextContentControl"
          /\ r # last.ref
          /\ InlineBuiltFrom(r) # {}
          /\ \A options \in InlineBuiltFrom(r) : ~IsDef(options.defaultStyle)

----------------------------------------------------------------------------
\* the entries of w:sdtPr with the given name
Entries(xml, name) == SelectSeq(SdtPr(xml), LAMBDA entry : entry.name = name)

IsTrue(flag) == IsDef(flag) /\ Val(flag)

HasAttr(entry, name) == \E k \in 1..Len(entry.attr) : entry.attr[k] = <<name, "1">>

\* C23: every class stores the lock option as supplied; w:lock is serialized
\* exactly when a lock is stored, once, and it carries w:contentLocked="1"
\* exactly when contentLock is true and w:sdtLocked="1" exactly when sdtLocked
\* is true, and no other attribute.
LockFollowsOption ==
    /\ LastConstructed => controls[Len(controls)].lock = last.options.lock
    /\ LastXml
          => LET lock == controls[last.ref].lock
                 entries == Entries(last.xml, "w:lock")
             IN  /\ Len(entries) = (IF IsDef(lock) THEN 1 ELSE 0)
                 /\ IsDef(lock)
                       => /\ HasAttr(entries[1], "w:contentLocked")
                             <=> IsTrue(Val(lock).contentLock)
                          /\ HasAttr(entries[1], "w:sdtLocked")
                             <=> IsTrue(Val(lock).sdtLocked)
                          /\ Len(entries[1].attr)
                                = (IF IsTrue(Val(lock).contentLock) THEN 1 ELSE 0)
                                  + (IF IsTrue(Val(lock).sdtLocked) THEN 1 ELSE 0)
                          /\ entries[1].children = <<>>

StructureLockAloneSerialized ==
    /\ LastXml
    /\ controls[last.ref].variant = "CheckboxContentControl"
    /\ controls[last.ref].lock
          = Some([contentLock |-> Some(FALSE), sdtLocked |-> Some(TRUE)])
    /\ Entries(last.xml, "w:lock") = <<El("w:lock", << <<"w:sdtLocked", "1">> >>, <<>>)>>

----------------------------------------------------------------------------
\* C24 as stated: every class stores the placeholder option as supplied, and
\* w:showingPlcHdr is serialized exactly when a placeholder string is stored,
\* whatever the string, once and as the empty element.
MarkerFollowsPlaceholder ==
    /\ LastConstructed
          => controls[Len(controls)].placeholder = last.options.placeholder
    /\ LastXml
          => Entries(last.xml, "w:showingPlcHdr")
                = (IF IsDef(controls[last.ref].placeholder)
                   THEN <<El("w:showingPlcHdr", <<>>, <<>>)>> ELSE <<>>)

----------------------------------------------------------------------------
\* the last call was a constructor that handed a data binding to
\* validateDataBinding
BindingValidated ==
    /\ last.op = "new" /\ IsDef(last.options.dataBinding)
    /\ OptionsError(last.variant, last.options) = "none"

\* C25: validateDataBinding fails on a locator that is empty or white space
\* only, whatever the key; it fails on a malformed key beside a valid locator;
\* and on a valid key with a locator that does not start with "/" it returns
\* normally with a warning, which a locator starting with "/" does not get.
BindingCasesSettled ==
    BindingValidated
        => LET xpath == Val(last.options.dataBinding).xpath
               key == Val(last.options.dataBinding).storeItemId
           IN  /\ ~NonBlank(xpath) => last.err = "xpath"
               /\ (NonBlank(xpath) /\ ~KeyMatchesPattern(key)) => last.err = "guid"
               /\ (NonBlank(xpath) /\ KeyMatchesPattern(key))
                     => /\ last.err \notin BindingErrors
                        /\ Warned("relativeXpath") <=> xpath[1] # "/"

RelativeLocatorAccepted ==
    /\ BindingValidated /\ last.err = "none"
    /\ last.variant = "DropdownContentControl"
    /\ last.options.dataBinding = Some(Binding(RelativeXPath, ValidGuid))
    /\ last.warns = <<"relativeXpath">>
    /\ controls[Len(controls)].dataBinding = last.options.dataBinding

----------------------------------------------------------------------------
RECURSIVE SdtIds(_)
RECURSIVE SdtIdsOf(_)

\* the w:id values of the w:sdt fragments in a list of fragments, one entry
\* for each w:sdt
SdtIdsOf(list) ==
    IF list = <<>> THEN <<>> ELSE SdtIds(Head(list)) \o SdtIdsOf(Tail(list))

\* the w:id values of the w:sdt fragments in a fragment, its own first
SdtIds(el) ==
    IF el.name # "w:sdt" THEN <<>>
    ELSE SelectSeq(el.children[1].children, LAMBDA entry : entry.name = "w:id")
         \o SdtIdsOf(el.children[2].children)

\* C26 as stated: in the serialized output of a tree of constructed controls
\* no two w:sdt fragments carry the same w:id.
SerializedIdsDistinct ==
    LastXml
        => LET ids == SdtIds(Val(last.xml)) IN
           \A i, j \in 1..Len(ids) : i # j => ids[i] # ids[j]

----------------------------------------------------------------------------
ContentRequired ==
    {"RunContentControl", "BlockContentControl", "DropdownContentControl",
     "DatePickerContentControl"}

NoChildren(options) == ~IsDef(options.children) \/ Val(options.children) = <<>>

\* C27: RunContentControl, BlockContentControl, DropdownContentControl and
\* DatePickerContentControl fail construction when children is missing or
\* empty, with the error of the children test when nothing else is wrong, so
\* every constructed control of these four classes holds at least one child.
ContentRequiredByFour ==
    /\ (last.op = "new" /\ last.variant \in ContentRequired /\ NoChildren(last.options))
          => /\ last.err # "none"
             /\ (IsDef(last.options.tag) /\ NonBlank(Val(last.options.tag)))
                   => last.err = "children"
    /\ \A r \in 1..Len(controls) :
          controls[r].variant \in ContentRequired => Len(controls[r].root) >= 1

EmptyChildrenRejected ==
    /\ LastNew("DatePickerContentControl")
    /\ last.options.children = Some(<<>>)
    /\ last.err = "children"
    /\ \E r \in 1..Len(controls) :
          controls[r].variant = "DropdownContentControl" /\ Len(controls[r].root) = 1

----------------------------------------------------------------------------
\* C29: a CheckboxContentControl is constructed whatever the children array
\* holds, with a warning when it is not empty, and stores none of the
\* children; its serialized w:sdtContent is always the empty list.
CheckboxStoresNoChildren ==
    /\ (LastNew("CheckboxContentControl") /\ IsDef(last.options.children))
          => /\ last.err = "none"
             /\ Warned("checkboxChildren") <=> Val(last.options.children) # <<>>
             /\ controls[Len(controls)].root = <<>>
    /\ \A r \in 1..Len(controls) :
          controls[r].variant = "CheckboxContentControl"
             => SdtContent(prepForXml(controls[r], controls).xml) = <<>>
    /\ (LastXml /\ controls[last.ref].variant = "CheckboxContentControl")
          => SdtContent(last.xml) = <<>>

CheckboxGivenNestedControl ==
    /\ LastNew("CheckboxContentControl") /\ last.err = "none"
    /\ \E c \in Refs : last.options.children = Some(<<TextRun, c>>)
    /\ last.warns = <<"checkboxChildren">>
    /\ controls[Len(controls)].root = <<>>
    /\ SdtContent(prepForXml(controls[Len(controls)], controls).xml) = <<>>

----------------------------------------------------------------------------
\* C28 as stated: a constructor call that fails, for whatever reason, leaves
\* the shared generator where it was.
FailureKeepsGenerator ==
    [][(last'.op = "new" /\ last'.err # "none") => idCount' = idCount]_vars

----------------------------------------------------------------------------
\* the names of the elements of a list
Names(list) == [k \in 1..Len(list) |-> list[k].name]

\* the names of the entries of w:sdtPr after the common ones
PayloadOf(xml, ctl) ==
    SubSeq(Names(SdtPr(xml)), Len(CommonProperties(ctl)) + 1, Len(SdtPr(xml)))

TextNames(ctl) ==
    (IF IsDef(ctl.multiLine) THEN <<"w:multiLine">> ELSE <<>>)
    \o (IF IsDef(ctl.maxLength) THEN <<"w:maxLength">> ELSE <<>>)

StyleNames(ctl) == IF IsDef(ctl.defaultStyle) THEN <<"w:rPr">> ELSE <<>>

\* C30: RunContentControl accepts and stores multiLine, maxLength and
\* defaultStyle in both modes.  With richText: true the payload is w:richText,
\* followed by w:rPr when a defaultStyle was supplied, and no w:text,
\* w:multiLine or w:maxLength appears; otherwise the payload is w:text, which
\* holds w:multiLine and w:maxLength exactly when the respective field is
\* defined, followed by w:rPr when a defaultStyle was supplied.
TextFieldsFollowMode ==
    /\ LastNew("RunContentControl")
          => /\ last.err = "none"
             /\ LET ctl == controls[Len(controls)] IN
                <<ctl.multiLine, ctl.maxLength, ctl.defaultStyle>>
                   = TextFieldsOf(last.options)
    /\ (LastXml /\ controls[last.ref].variant = "RunContentControl")
          => LET ctl == controls[last.ref]
                 payload == PayloadOf(last.xml, ctl)
                 text == Entries(last.xml, "w:text")
             IN  IF IsTrue(ctl.richText)
                 THEN /\ payload = <<"w:richText">> \o StyleNames(ctl)
                      /\ text = <<>>
                      /\ \A k \in 1..Len(SdtPr(last.xml)) :
                            /\ SdtPr(last.xml)[k].name \notin {"w:multiLine", "w:maxLength"}
                            /\ SdtPr(last.xml)[k].name = "w:richText"
                                  => SdtPr(last.xml)[k].children = <<>>
                 ELSE /\ payload = <<"w:text">> \o StyleNames(ctl)
                      /\ Len(text) = 1
                      /\ Names(text[1].children) = TextNames(ctl)

RichRunWithTextFieldsSerialized ==
    /\ LastXml
    /\ controls[last.ref].variant = "RunContentControl"
    /\ controls[last.ref].richText = Some(TRUE)
    /\ controls[last.ref].multiLine = Some(TRUE)
    /\ controls[last.ref].maxLength = Some(50)
    /\ IsDef(controls[last.ref].defaultStyle)
    /\ PayloadOf(last.xml, controls[last.ref]) = <<"w:richText", "w:rPr">>
    /\ \E r \in 1..Len(controls) :
          /\ ~IsTrue(controls[r].richText)
          /\ controls[r].multiLine = Some(FALSE) /\ controls[r].maxLength = Some(50)
          /\ IsDef(firstXml[r])

====
